---------------------------- MODULE Spec2Model ----------------------------
(***************************************************************************)
(* The notebook worker of                                                  *)
(* src/vs/workbench/contrib/notebook/common/services/notebookSimpleWorker.ts *)
(* as a state machine: the registry of MirrorNotebookDocuments kept by     *)
(* NotebookEditorSimpleWorker, the MirrorCells with their lazily filled    *)
(* hash fields, and the request handlers that create, change, remove and   *)
(* diff the mirrors.  After the worker come three smaller components as    *)
(* state machines of their own: the DialogHandlerContribution of           *)
(* unnamed/part_007, the ExtensionsDownloader of                           *)
(* src/vs/platform/extensionManagement/node/extensionDownloader.ts and the *)
(* onExtensionChanged event of unnamed/part_010.                           *)
(***************************************************************************)
EXTENDS Integers, Sequences, FiniteSets, TLC

VARIABLES
    models,     \* NotebookEditorSimpleWorker._models: uri -> mirror or NoModel
    last,       \* the last request made to the worker and how it ended
    sent,       \* uri -> the cell DTOs of the NotebookData last accepted for it
    nMut,       \* number of $accept* requests the callers have yet to make
    cellPair,   \* two stand-alone MirrorCells (unit-level use of the class)
    ret,        \* what the last method call on a stand-alone cell returned
    served,     \* the registry of a worker that got the same calls except
                \* those that threw
    failed,     \* the URIs of the calls that threw since the URI was last
                \* registered or removed
    dialogHandler,  \* the DialogHandlerContribution and its dialogs model
    downloader,     \* the ExtensionsDownloader, its download directory and
                    \* the download() calls in progress
    extensionChanged  \* the debounced onExtensionChanged event

vars == <<models, last, sent, nMut, cellPair, ret, served, failed,
          dialogHandler, downloader, extensionChanged>>

\* the value of a component's variable where the component is not built
NotBuilt == [built |-> FALSE]

----------------------------------------------------------------------------
(* Bounds of the model.                                                    *)

MaxCells == 3        \* longest cell list of a NotebookData
MaxMutations == 2    \* number of $accept* requests in one run
MaxRawEvents == 1    \* raw events in one NotebookCellsChangedEventDto
MaxMoveLength == 2   \* largest `length` field of a Move raw event
MaxSessionCalls == 3       \* $accept* requests in a run of SpecSession
MaxSessionRawEvents == 2   \* raw events in one event of SpecSession

----------------------------------------------------------------------------
(* JavaScript values.                                                      *)

\* String.prototype.charCodeAt over the strings of the model
charCodes ==
    "python" :> <<112, 121, 116, 104, 111, 110>> @@
    "markdown" :> <<109, 97, 114, 107, 100, 111, 119, 110>> @@
    "x" :> <<120>> @@
    "y" :> <<121>> @@
    "z" :> <<122>> @@
    "mime" :> <<109, 105, 109, 101>> @@
    "data" :> <<100, 97, 116, 97>> @@
    "outputs" :> <<111, 117, 116, 112, 117, 116, 115>> @@
    "metadata" :> <<109, 101, 116, 97, 100, 97, 116, 97>> @@
    "id" :> <<105, 100>> @@
    "executionOrder" :> <<101, 120, 101, 99, 117, 116, 105, 111, 110, 79, 114, 100, 101, 114>> @@
    "text" :> <<116, 101, 120, 116>> @@
    "" :> <<>> @@
    "import pandas as pd" :>
        <<105, 109, 112, 111, 114, 116, 32, 112, 97, 110, 100, 97, 115,
          32, 97, 115, 32, 112, 100>> @@
    "from pandas import x" :>
        <<102, 114, 111, 109, 32, 112, 97, 110, 100, 97, 115, 32, 105,
          109, 112, 111, 114, 116, 32, 120>> @@
    "import numpy\nFrom  Pandas" :>
        <<105, 109, 112, 111, 114, 116, 32, 110, 117, 109, 112, 121, 10,
          70, 114, 111, 109, 32, 32, 80, 97, 110, 100, 97, 115>> @@
    "import numpy" :>
        <<105, 109, 112, 111, 114, 116, 32, 110, 117, 109, 112, 121>>

\* An optional object with one numeric property: undefined, or {key: n}.
Undefined   == [defined |-> FALSE, key |-> "", n |-> 0]
Obj(key, n) == [defined |-> TRUE, key |-> key, n |-> n]

\* ICellDto2.source: a string, or an array of lines
Str(s)   == [isArray |-> FALSE, lines |-> <<s>>]
Lines(l) == [isArray |-> TRUE, lines |-> l]

\* An IOutputDto with one output item of mime type "text"
Output(byte) ==
    [outputs |-> <<[mime |-> "text", data |-> <<byte>>]>>,
     metadata |-> Undefined]

OutA == <<Output(1)>>
OutB == <<Output(2)>>

Min(a, b) == IF a < b THEN a ELSE b
Max(a, b) == IF a > b THEN a ELSE b

\* A nullable number field (null: set = FALSE).
Null    == [set |-> FALSE, v |-> 0]
Num(v)  == [set |-> TRUE, v |-> v]

----------------------------------------------------------------------------
(* vs/base/common/hash: 32-bit hashing, hashVal * 31 + val kept as int32.  *)

\* (((initialHashVal << 5) - initialHashVal) + val) | 0, on 16-bit limbs
numberHash[val \in Int, initialHashVal \in Int] ==
    LET hlo == initialHashVal % 65536
        hhi == (initialHashVal \div 65536) % 65536
        vlo == val % 65536
        vhi == (val \div 65536) % 65536
        t   == hlo * 31 + vlo
        lo  == t % 65536
        hi  == (hhi * 31 + vhi + (t \div 65536)) % 65536
    IN  IF hi >= 32768 THEN (hi - 65536) * 65536 + lo ELSE hi * 65536 + lo

\* the loop hashVal = numberHash[s.charCodeAt(i), hashVal] over a string, and
\* the same loop over the bytes of a buffer
numbersHash[s \in Seq(Int), hashVal \in Int] ==
    IF s = <<>> THEN hashVal
    ELSE numbersHash[Tail(s), numberHash[Head(s), hashVal]]

stringHash(s, hashVal) ==
    numbersHash[charCodes[s], numberHash[149417, hashVal]]

undefinedHash(hashVal) == numberHash[937, hashVal]

\* objectHash of {key: n}, or the hash of undefined
optObjectHash(o, hashVal) ==
    IF o.defined
    THEN numberHash[o.n, stringHash(o.key, numberHash[181387, hashVal])]
    ELSE undefinedHash(hashVal)

----------------------------------------------------------------------------
(* bufferHash, notebookSimpleWorker.ts:17-24                               *)

ArraySeed == 104579

bufferHash(buffer) == numbersHash[buffer, numberHash[ArraySeed, 0]]

----------------------------------------------------------------------------
(* MirrorCell, notebookSimpleWorker.ts:26-97                               *)

\* cell kinds of notebookCommon.CellKind
Markup == "Markup"
Code   == "Code"

\* new MirrorCell(handle, source, language, cellKind, outputs, metadata,
\* internalMetadata): the two hash fields start as null
MirrorCell(handle, source, language, cellKind, outputs, metadata, internalMetadata) ==
    [handle |-> handle, source |-> source, language |-> language,
     cellKind |-> cellKind, outputs |-> outputs, metadata |-> metadata,
     internalMetadata |-> internalMetadata,
     primaryKey |-> Null, hash |-> Null]

\* source.join('\n'), as char codes
RECURSIVE joinLines(_)
joinLines(lines) ==
    IF lines = <<>> THEN <<>>
    ELSE IF Len(lines) = 1 THEN charCodes[lines[1]]
    ELSE charCodes[lines[1]] \o <<10>> \o joinLines(Tail(lines))

\* the text of the cell's buffer (as char codes): a string source as it is,
\* an array source joined with line feeds
getValue(cell) ==
    IF cell.source.isArray THEN joinLines(cell.source.lines)
    ELSE charCodes[cell.source.lines[1]]

\* hash(getValue()): stringHash of the text from 0
valueHash(cell) == numbersHash[getValue(cell), numberHash[149417, 0]]

\* hash of {mime: output.mime, data: bufferHash(output.data)}: keys sorted
outputItemHash(item, hashVal) ==
    LET h0 == numberHash[181387, hashVal]
        h1 == numberHash[bufferHash(item.data), stringHash("data", h0)]
    IN  stringHash(item.mime, stringHash("mime", h1))

RECURSIVE outputItemsHash(_, _)
outputItemsHash(items, hashVal) ==
    IF items = <<>> THEN hashVal
    ELSE outputItemsHash(Tail(items), outputItemHash(Head(items), hashVal))

\* hash of {outputs: [...], metadata: op.metadata}: keys sorted
outputHash(op, hashVal) ==
    LET h0 == numberHash[181387, hashVal]
        h1 == optObjectHash(op.metadata, stringHash("metadata", h0))
        h2 == numberHash[ArraySeed, stringHash("outputs", h1)]
    IN  outputItemsHash(op.outputs, h2)

RECURSIVE outputsHash(_, _)
outputsHash(ops, hashVal) ==
    IF ops = <<>> THEN hashVal
    ELSE outputsHash(Tail(ops), outputHash(Head(ops), hashVal))

\* hash([hash(language), hash(getValue()), metadata, internalMetadata,
\*       outputs.map(...)]), line 79
comparisonHash(cell) ==
    LET h0 == numberHash[ArraySeed, 0]
        h1 == numberHash[stringHash(cell.language, 0), h0]
        h2 == numberHash[valueHash(cell), h1]
        h3 == optObjectHash(cell.metadata, h2)
        h4 == optObjectHash(cell.internalMetadata, h3)
    IN  outputsHash(cell.outputs, numberHash[ArraySeed, h4])

\* hash([hash(getValue()), language, metadata, internalMetadata]), line 94
contentHash(cell) ==
    LET h0 == numberHash[ArraySeed, 0]
        h1 == numberHash[valueHash(cell), h0]
        h2 == stringHash(cell.language, h1)
        h3 == optObjectHash(cell.metadata, h2)
    IN  optObjectHash(cell.internalMetadata, h3)

\* The two hashes, tabulated once over the cell contents the inputs can
\* produce (the hashed fields of a cell: language, source, both metadata
\* blobs and the outputs).  Combining with the empty function makes the
\* table an explicit one, computed a single time.
Hashed(cell) ==
    [language |-> cell.language, source |-> cell.source,
     metadata |-> cell.metadata, internalMetadata |-> cell.internalMetadata,
     outputs |-> cell.outputs]

HashedDomain ==
    [language : {"python", "markdown"},
     source : {Str("x"), Lines(<<"y", "y">>), Str("z")},
     metadata : {Undefined, Obj("id", 1), Obj("id", 2)},
     internalMetadata : {Undefined, Obj("executionOrder", 1), Obj("executionOrder", 2)},
     outputs : {<<>>, OutA, OutB}]

comparisonHashes ==
    [c \in HashedDomain |-> comparisonHash(c)] @@ [c \in {} |-> 0]
contentHashes ==
    [c \in HashedDomain |-> contentHash(c)] @@ [c \in {} |-> 0]

\* getComparisonValue returning the cached _hash when there is one
getComparisonValueCached(cell) ==
    IF cell.hash.set
    THEN [value |-> cell.hash.v, cell |-> cell]
    ELSE [value |-> comparisonHashes[Hashed(cell)],
          cell |-> [cell EXCEPT
                       !.hash = Num(comparisonHashes[Hashed(cell)])]]

\* getComparisonValue with the cell's handle hashed in
getComparisonValueWithHandle(cell) ==
    [value |-> numberHash[cell.handle, comparisonHashes[Hashed(cell)]],
     cell |-> [cell EXCEPT
                  !.hash = Num(numberHash[cell.handle,
                                          comparisonHashes[Hashed(cell)]])]]

\* getComparisonValue(): the value returned and the cell afterwards.
\* _primaryKey starts as null and primaryKey() only fills it when it is
\* undefined, so the early return is taken only if the field was set.
getComparisonValue(cell) ==
    IF cell.primaryKey.set
    THEN [value |-> cell.primaryKey.v, cell |-> cell]
    ELSE LET h == comparisonHashes[Hashed(cell)]
         IN  [value |-> h, cell |-> [cell EXCEPT !.hash = Num(h)]]

\* getHashValue(): the value returned and the cell afterwards
getHashValue(cell) ==
    IF cell.hash.set
    THEN [value |-> cell.hash.v, cell |-> cell]
    ELSE LET h == contentHashes[Hashed(cell)]
         IN  [value |-> h, cell |-> [cell EXCEPT !.hash = Num(h)]]

----------------------------------------------------------------------------
(* Inputs: cell DTOs, notebooks and raw events.                            *)

CellDto(handle, source, language, cellKind, outputs, metadata, internalMetadata) ==
    [handle |-> handle, source |-> source, language |-> language,
     cellKind |-> cellKind, outputs |-> outputs, metadata |-> metadata,
     internalMetadata |-> internalMetadata]

dX  == CellDto(1, Str("x"), "python", Code, OutA, Undefined, Undefined)
dXi == CellDto(1, Str("x"), "python", Code, OutA, Undefined, Obj("executionOrder", 1))
dXo == CellDto(1, Str("x"), "python", Code, OutB, Undefined, Undefined)
dY  == CellDto(2, Lines(<<"y", "y">>), "markdown", Markup, <<>>,
               Obj("id", 1), Undefined)
dZ  == CellDto(3, Str("z"), "python", Code, <<>>, Undefined, Undefined)
dN  == CellDto(4, Str("z"), "python", Code, <<>>, Undefined, Undefined)

CellDtos == {dX, dXi, dXo, dY, dZ}

\* the DTOs of the notebooks sent to the worker
NotebookCellDtos == {dX, dY, dZ}

URIs == {"a", "b"}

SeqsUpTo(S, n) == UNION {[1..k -> S] : k \in 0..n}

\* NotebookData.cells: the caller gives every cell its own handle.  The
\* notebooks list cells by ascending handle; dXi (dX with internalMetadata)
\* and dN (the content of dZ under another handle) come as one-cell
\* notebooks.
Notebooks ==
    {nb \in SeqsUpTo(NotebookCellDtos, MaxCells) :
        \A i, j \in DOMAIN nb : i < j => nb[i].handle < nb[j].handle}
    \cup {<<dXi>>, <<dN>>}

ModelChange == "ModelChange"
Move == "Move"
OutputKind == "Output"
ChangeCellLanguage == "ChangeCellLanguage"
ChangeCellMetadata == "ChangeCellMetadata"
ChangeCellInternalMetadata == "ChangeCellInternalMetadata"

UpdateKinds ==
    {OutputKind, ChangeCellLanguage, ChangeCellMetadata,
     ChangeCellInternalMetadata}

RawEvent(kind, index, length, newIdx, changes) ==
    [kind |-> kind, index |-> index, length |-> length, newIdx |-> newIdx,
     changes |-> changes, outputs |-> OutB, language |-> "markdown",
     metadata |-> Obj("id", 2), internalMetadata |-> Obj("executionOrder", 2)]

\* the raw events a caller may send for a mirror of n cells, in and out of
\* bounds
RawEvents(n) ==
    {RawEvent(k, i, 0, 0, <<>>) : k \in UpdateKinds, i \in -1..n}
    \cup {RawEvent(Move, i, l, j, <<>>) :
            i \in -1..n, l \in 1..MaxMoveLength, j \in 0..Max(n - 1, 0)}
    \cup {RawEvent(ModelChange, 0, 0, 0, <<<<i, d, c>>>>) :
            i \in 0..n, d \in 0..1, c \in {<<>>, <<dN>>}}
    \cup {RawEvent(ModelChange, 0, 0, 0,
                    <<<<i, 1, <<>>>>, <<i + 1, 1, <<dN>>>>>>) :
            i \in 0..(n - 2)}
    \cup {RawEvent(ModelChange, 0, 0, 0,
                    <<<<i, 0, <<dN>>>>, <<i + 1, 1, <<>>>>>>) :
            i \in 0..(n - 2)}

----------------------------------------------------------------------------
(* MirrorNotebookDocument, notebookSimpleWorker.ts:99-159                  *)

\* splice that deletes nothing
spliceInsertOnly(arr, start, deleteCount, items) ==
    [removed |-> <<>>,
     array   |-> SubSeq(arr, 1, Min(Max(start, 0), Len(arr))) \o items
                 \o SubSeq(arr, Min(Max(start, 0), Len(arr)) + 1, Len(arr))]

\* Array.prototype.splice(start, deleteCount, ...items): a negative start
\* counts from the end, start and deleteCount are clamped to the array
splice(arr, start, deleteCount, items) ==
    LET len == Len(arr)
        s   == IF start < 0 THEN Max(len + start, 0) ELSE Min(start, len)
        dc  == Min(Max(deleteCount, 0), len - s)
    IN  [removed |-> SubSeq(arr, s + 1, s + dc),
         array   |-> SubSeq(arr, 1, s) \o items \o SubSeq(arr, s + dc + 1, len)]

NoError == [kind |-> "none", identifies |-> FALSE, index |-> 0, length |-> 0]

\* new Error(`Illegal index ${index}. Cells length: ${this.cells.length}`)
IllegalIndex(index, length) ==
    [kind |-> "Error", identifies |-> TRUE, index |-> index, length |-> length]

\* the TypeError of reading or writing a property of undefined
TypeError == [kind |-> "TypeError", identifies |-> FALSE, index |-> 0,
              length |-> 0]

\* _assertIndex with the upper bound off by one (index > length)
assertIndexOffByOne(cells, index) ==
    IF index < 0 \/ index > Len(cells)
    THEN IllegalIndex(index, Len(cells))
    ELSE NoError

\* _assertIndex(index): the error thrown, or NoError
assertIndex(cells, index) ==
    IF index < 0 \/ index >= Len(cells)
    THEN IllegalIndex(index, Len(cells))
    ELSE NoError

\* the six-argument construction of a mirror cell from a DTO, lines 146-153
\* and 194-201: internalMetadata is not passed
newMirrorCell(dto) ==
    MirrorCell(dto.handle, dto.source, dto.language, dto.cellKind,
               dto.outputs, dto.metadata, Undefined)

mapMirrorCells(dtos) == [i \in DOMAIN dtos |-> newMirrorCell(dtos[i])]

\* _spliceNotebookCells without the reverse(): the splices are applied
\* first to last
RECURSIVE spliceNotebookCellsInOrder(_, _)
spliceNotebookCellsInOrder(cells, splices) ==
    IF splices = <<>> THEN cells
    ELSE spliceNotebookCellsInOrder(
             splice(cells, splices[1][1], splices[1][2],
                    mapMirrorCells(splices[1][3])).array,
             Tail(splices))

\* _spliceNotebookCells(splices): the splices are applied last to first
RECURSIVE spliceNotebookCells(_, _)
spliceNotebookCells(cells, splices) ==
    IF splices = <<>> THEN cells
    ELSE LET sp == splices[Len(splices)]
         IN  spliceNotebookCells(
                 splice(cells, sp[1], sp[2], mapMirrorCells(sp[3])).array,
                 SubSeq(splices, 1, Len(splices) - 1))

\* cells[index], which is undefined outside the array
HasCell(cells, index) == index >= 0 /\ index < Len(cells)

\* the assignment replacing the cell by a new one without outputs
setFieldClearingOutputs(cells, index, updated) ==
    IF HasCell(cells, index)
    THEN [cells |-> [cells EXCEPT
                        ![index + 1] = [updated EXCEPT !.outputs = <<>>]],
          threw |-> NoError]
    ELSE [cells |-> cells, threw |-> TypeError]

\* cell.<field> = value on this.cells[index]: writing a property of
\* undefined throws a TypeError
setField(cells, index, updated) ==
    IF HasCell(cells, index)
    THEN [cells |-> [cells EXCEPT ![index + 1] = updated], threw |-> NoError]
    ELSE [cells |-> cells, threw |-> TypeError]

\* _assertIndex(index) followed by the assignment to the cell's field
assertAndSetField(cells, index, updated) ==
    IF assertIndex(cells, index) # NoError
    THEN [cells |-> cells, threw |-> assertIndex(cells, index)]
    ELSE setField(cells, index, updated)

\* the cell at a 0-based index, for the branches that have checked it
CellAt(cells, index) ==
    IF HasCell(cells, index) THEN cells[index + 1] ELSE cells

\* a move that takes newIdx as a position of the list before the removal
moveCellBeforeRemoval(cells, index, newIdx) ==
    splice(splice(cells, index, 1, <<>>).array,
           IF newIdx > index THEN newIdx - 1 ELSE newIdx,
           0, splice(cells, index, 1, <<>>).removed).array

\* the Move branch: this.cells.splice(e.index, 1), then
\* this.cells.splice(e.newIdx, 0, ...cells) on the list after the removal
moveCell(cells, index, newIdx) ==
    splice(splice(cells, index, 1, <<>>).array, newIdx,
           0, splice(cells, index, 1, <<>>).removed).array

\* the body of the forEach callback for one raw event: the cell list
\* afterwards and the error thrown, if any
applyRawEvent(cells, e) ==
    CASE e.kind = ModelChange ->
            [cells |-> spliceNotebookCells(cells, e.changes), threw |-> NoError]
      [] e.kind = Move ->
            [cells |-> moveCell(cells, e.index, e.newIdx), threw |-> NoError]
      [] e.kind = OutputKind ->
            setField(cells, e.index,
                     [CellAt(cells, e.index) EXCEPT !.outputs = e.outputs])
      [] e.kind = ChangeCellLanguage ->
            assertAndSetField(cells, e.index,
                     [CellAt(cells, e.index) EXCEPT !.language = e.language])
      [] e.kind = ChangeCellMetadata ->
            assertAndSetField(cells, e.index,
                     [CellAt(cells, e.index) EXCEPT !.metadata = e.metadata])
      [] e.kind = ChangeCellInternalMetadata ->
            assertAndSetField(cells, e.index,
                     [CellAt(cells, e.index) EXCEPT
                         !.internalMetadata = e.internalMetadata])

\* acceptModelChanged(event): rawEvents.forEach, which stops at the first
\* raw event that throws.  k is the position of the next raw event, counts
\* the cell count met by each raw event so far.
RECURSIVE forEachRawEvent(_, _, _, _)
forEachRawEvent(cells, rawEvents, k, counts) ==
    IF k > Len(rawEvents)
    THEN [cells |-> cells, threw |-> NoError, failedAt |-> 0,
          beforeRaw |-> cells, counts |-> counts]
    ELSE IF applyRawEvent(cells, rawEvents[k]).threw # NoError
    THEN [cells |-> applyRawEvent(cells, rawEvents[k]).cells,
          threw |-> applyRawEvent(cells, rawEvents[k]).threw,
          failedAt |-> k, beforeRaw |-> cells,
          counts |-> Append(counts, Len(cells))]
    ELSE forEachRawEvent(applyRawEvent(cells, rawEvents[k]).cells, rawEvents,
                         k + 1, Append(counts, Len(cells)))

\* acceptModelChanged going through the raw events from the last to the
\* first
acceptModelChangedReversed(cells, rawEvents) ==
    forEachRawEvent(cells,
                    [k \in DOMAIN rawEvents |->
                        rawEvents[Len(rawEvents) + 1 - k]], 1, <<>>)

acceptModelChanged(cells, rawEvents) ==
    forEachRawEvent(cells, rawEvents, 1, <<>>)

----------------------------------------------------------------------------
(* CellSequence, notebookSimpleWorker.ts:161-180                           *)

NoModel == [present |-> FALSE, cells |-> <<>>, metadata |-> Undefined]

Mirror(cells, metadata) ==
    [present |-> TRUE, cells |-> cells, metadata |-> metadata]

\* getElements reading this.textModel?.cells ?? []: no elements, and no
\* error, for a missing mirror
getElementsOptional(textModel) ==
    [threw |-> NoError,
     elements |-> [i \in DOMAIN textModel.cells |->
                      getComparisonValue(textModel.cells[i]).value],
     cells |-> [i \in DOMAIN textModel.cells |->
                   getComparisonValue(textModel.cells[i]).cell]]

\* getElements that reverses this.textModel.cells in place before it reads
\* them
getElementsReversing(textModel) ==
    IF ~textModel.present
    THEN [threw |-> TypeError, elements |-> <<>>, cells |-> <<>>]
    ELSE LET n == Len(textModel.cells)
             r == [i \in 1..n |->
                      getComparisonValue(textModel.cells[n + 1 - i])]
         IN  [threw |-> NoError,
              elements |-> [i \in 1..n |-> r[i].value],
              cells |-> [i \in 1..n |-> r[i].cell]]

\* getElements(): one comparison value per cell in document order, the
\* cells as the calls leave them, and the TypeError of reading .cells of an
\* undefined textModel
getElements(textModel) ==
    IF ~textModel.present
    THEN [threw |-> TypeError, elements |-> <<>>, cells |-> <<>>]
    ELSE LET r == [i \in DOMAIN textModel.cells |->
                      getComparisonValue(textModel.cells[i])]
         IN  [threw |-> NoError,
              elements |-> [i \in DOMAIN r |-> r[i].value],
              cells |-> [i \in DOMAIN r |-> r[i].cell]]

----------------------------------------------------------------------------
(* The text buffer of a cell and its line-by-line search, of               *)
(* vs/editor/common/model: the text is split into lines at the line feeds  *)
(* and a regular expression without \n, \r or \W in its source is matched  *)
(* within single lines.                                                    *)

LineFeed == 10

\* textBuffer.getLineCount()
getLineCount(text) ==
    1 + Cardinality({i \in DOMAIN text : text[i] = LineFeed})

\* the 1-based number of the line that holds the position p of the text
LineOf(text, p) ==
    1 + Cardinality({i \in 1..(p - 1) : text[i] = LineFeed})

\* the i flag: upper case ASCII letters match their lower case
ToLower(c) == IF c \in 65..90 THEN c + 32 ELSE c

\* \s within a line: space, tab, vertical tab, form feed, carriage return
\* and no-break space
Whitespace == {32, 9, 11, 12, 13, 160}

\* the literal word, in any case, at position p
WordAt(text, p, word) ==
    /\ p + Len(word) - 1 <= Len(text)
    /\ \A k \in DOMAIN word : ToLower(text[p + k - 1]) = word[k]

KeywordImport == <<105, 109, 112, 111, 114, 116>>
KeywordFrom   == <<102, 114, 111, 109>>
NamePandas    == <<112, 97, 110, 100, 97, 115>>

\* a match of import\s*pandas|from\s*pandas that starts at position p
PatternAt(text, p) ==
    \E keyword \in {KeywordImport, KeywordFrom} :
        /\ WordAt(text, p, keyword)
        /\ \E q \in (p + Len(keyword))..Len(text) :
              /\ \A i \in (p + Len(keyword))..(q - 1) :
                    text[i] \in Whitespace
              /\ WordAt(text, q, NamePandas)

\* findMatchesLineByLine over the lines 1..maxLineCount: the positions
\* where a match starts
findMatchesLineByLine(text, maxLineCount) ==
    {p \in DOMAIN text : LineOf(text, p) <= maxLineCount /\ PatternAt(text, p)}

----------------------------------------------------------------------------
(* LcsDiff of vs/base/common/diff/diff: the change spans of a longest      *)
(* common subsequence alignment, a deletion taken before an insertion      *)
(* when both keep the alignment longest.                                   *)

LcsLength[A \in Seq(Int), B \in Seq(Int), i \in Nat, j \in Nat] ==
    IF i > Len(A) \/ j > Len(B) THEN 0
    ELSE IF A[i] = B[j] THEN 1 + LcsLength[A, B, i + 1, j + 1]
    ELSE Max(LcsLength[A, B, i + 1, j], LcsLength[A, B, i, j + 1])

Retained(A, B, i, j) == i <= Len(A) /\ j <= Len(B) /\ A[i] = B[j]

\* where the change span that starts at (i, j) ends
ChangeEnd[A \in Seq(Int), B \in Seq(Int), i \in Nat, j \in Nat] ==
    IF (i > Len(A) /\ j > Len(B)) \/ Retained(A, B, i, j) THEN <<i, j>>
    ELSE IF j > Len(B)
            \/ (i <= Len(A)
                /\ LcsLength[A, B, i + 1, j] >= LcsLength[A, B, i, j + 1])
         THEN ChangeEnd[A, B, i + 1, j]
         ELSE ChangeEnd[A, B, i, j + 1]

DiffChanges[A \in Seq(Int), B \in Seq(Int), i \in Nat, j \in Nat] ==
    IF i > Len(A) /\ j > Len(B) THEN <<>>
    ELSE IF Retained(A, B, i, j) THEN DiffChanges[A, B, i + 1, j + 1]
    ELSE <<[originalStart |-> i - 1,
            originalLength |-> ChangeEnd[A, B, i, j][1] - i,
            modifiedStart |-> j - 1,
            modifiedLength |-> ChangeEnd[A, B, i, j][2] - j]>>
         \o DiffChanges[A, B, ChangeEnd[A, B, i, j][1],
                        ChangeEnd[A, B, i, j][2]]

\* a ComputeDiff that reports two differing sequences as one span over both
LcsComputeDiffWhole(A, B) ==
    [changes |-> IF A = B THEN <<>>
                 ELSE <<[originalStart |-> 0, originalLength |-> Len(A),
                         modifiedStart |-> 0, modifiedLength |-> Len(B)]>>,
     quitEarly |-> FALSE]

\* new LcsDiff(original, modified).ComputeDiff(false)
LcsComputeDiff(A, B) ==
    [changes |-> DiffChanges[A, B, 1, 1], quitEarly |-> FALSE]

NoDiff == [changes |-> <<>>, quitEarly |-> FALSE]

----------------------------------------------------------------------------
(* NotebookEditorSimpleWorker, notebookSimpleWorker.ts:182-314             *)

NoRequest ==
    [op |-> "create", uri |-> "", uri2 |-> "", data |-> <<>>,
     event |-> <<>>, returned |-> TRUE, threw |-> NoError, failedAt |-> 0,
     counts |-> <<>>, before |-> [u \in URIs |-> NoModel],
     beforeRaw |-> <<>>,
     result |-> NoDiff, original |-> <<>>, modified |-> <<>>,
     asIf |-> NoDiff, found |-> FALSE]

NoRet == [cmp |-> <<Null, Null>>, hsh |-> <<Null, Null>>]

\* constructor: this._models = Object.create(null)
Init ==
    /\ models = [u \in URIs |-> NoModel]
    /\ last = NoRequest
    /\ sent = [u \in URIs |-> <<>>]
    /\ nMut = MaxMutations
    /\ cellPair = <<>>
    /\ ret = NoRet
    /\ served = [u \in URIs |-> NoModel]
    /\ failed = {}
    /\ dialogHandler = NotBuilt
    /\ downloader = NotBuilt
    /\ extensionChanged = NotBuilt

\* _getModel(uri): the mirror, or undefined
getModel(uri) == models[uri]

\* $acceptNewModel that keeps the mirror a uri already has
AcceptNewModelIfAbsent(uri, data) ==
    /\ nMut > 0
    /\ models' = IF models[uri].present THEN models
                 ELSE [models EXCEPT
                    ![uri] = Mirror(mapMirrorCells(data.cells), data.metadata)]
    /\ last' = [NoRequest EXCEPT !.op = "acceptNewModel", !.uri = uri,
                                 !.data = data.cells, !.before = models]
    /\ sent' = [sent EXCEPT ![uri] = data.cells]
    /\ nMut' = nMut - 1
    /\ served' = [served EXCEPT
                    ![uri] = Mirror(mapMirrorCells(data.cells), data.metadata)]
    /\ failed' = failed \ {uri}
    /\ UNCHANGED <<cellPair, ret,
                   dialogHandler, downloader, extensionChanged>>

\* $acceptNewModel(uri, data)
AcceptNewModel(uri, data) ==
    /\ nMut > 0
    /\ models' = [models EXCEPT
                    ![uri] = Mirror(mapMirrorCells(data.cells), data.metadata)]
    /\ last' = [NoRequest EXCEPT !.op = "acceptNewModel", !.uri = uri,
                                 !.data = data.cells, !.before = models]
    /\ sent' = [sent EXCEPT ![uri] = data.cells]
    /\ nMut' = nMut - 1
    /\ served' = [served EXCEPT
                    ![uri] = Mirror(mapMirrorCells(data.cells), data.metadata)]
    /\ failed' = failed \ {uri}
    /\ UNCHANGED <<cellPair, ret,
                   dialogHandler, downloader, extensionChanged>>

\* The same event for the worker that is spared the calls that throw
AsIfChanged(strURL, event, returned) ==
    /\ served' = IF returned /\ served[strURL].present
                 THEN [served EXCEPT ![strURL].cells =
                          acceptModelChanged(served[strURL].cells,
                                             event.rawEvents).cells]
                 ELSE served
    /\ failed' = IF returned THEN failed ELSE failed \cup {strURL}

\* $acceptModelChanged calling model.acceptModelChanged(event) without the
\* optional chaining: a TypeError when there is no mirror
AcceptModelChangedUnguarded(strURL, event) ==
    /\ nMut > 0
    /\ \E r \in {acceptModelChanged(models[strURL].cells, event.rawEvents)} :
          /\ models' = [models EXCEPT ![strURL].cells = r.cells]
          /\ last' = [NoRequest EXCEPT
                         !.op = "acceptModelChanged", !.uri = strURL,
                         !.event = event.rawEvents,
                         !.returned = (models[strURL].present
                                       /\ r.threw = NoError),
                         !.threw = IF models[strURL].present THEN r.threw
                                   ELSE TypeError,
                         !.failedAt = r.failedAt, !.counts = r.counts,
                         !.before = models, !.beforeRaw = r.beforeRaw]
    /\ nMut' = nMut - 1
    /\ AsIfChanged(strURL, event, last'.returned)
    /\ UNCHANGED <<sent, cellPair, ret,
                   dialogHandler, downloader, extensionChanged>>

\* $acceptModelChanged in a worker that starts afresh, with an empty
\* registry, when the event throws
AcceptModelChangedResetOnThrow(strURL, event) ==
    /\ nMut > 0
    /\ IF models[strURL].present
       THEN \E r \in {acceptModelChanged(models[strURL].cells,
                                          event.rawEvents)} :
              /\ models' = IF r.threw = NoError
                           THEN [models EXCEPT ![strURL].cells = r.cells]
                           ELSE [u \in URIs |-> NoModel]
              /\ last' = [NoRequest EXCEPT
                             !.op = "acceptModelChanged", !.uri = strURL,
                             !.event = event.rawEvents,
                             !.returned = (r.threw = NoError),
                             !.threw = r.threw, !.failedAt = r.failedAt,
                             !.counts = r.counts,
                             !.before = models, !.beforeRaw = r.beforeRaw]
       ELSE /\ models' = models
            /\ last' = [NoRequest EXCEPT
                           !.op = "acceptModelChanged", !.uri = strURL,
                           !.event = event.rawEvents, !.before = models]
    /\ nMut' = nMut - 1
    /\ AsIfChanged(strURL, event, last'.returned)
    /\ UNCHANGED <<sent, cellPair, ret,
                   dialogHandler, downloader, extensionChanged>>

\* $acceptModelChanged(strURL, event): model?.acceptModelChanged(event)
AcceptModelChanged(strURL, event) ==
    /\ nMut > 0
    /\ IF models[strURL].present
       THEN \E r \in {acceptModelChanged(models[strURL].cells,
                                          event.rawEvents)} :
              /\ models' = [models EXCEPT ![strURL].cells = r.cells]
              /\ last' = [NoRequest EXCEPT
                             !.op = "acceptModelChanged", !.uri = strURL,
                             !.event = event.rawEvents,
                             !.returned = (r.threw = NoError),
                             !.threw = r.threw, !.failedAt = r.failedAt,
                             !.counts = r.counts,
                             !.before = models, !.beforeRaw = r.beforeRaw]
       ELSE /\ models' = models
            /\ last' = [NoRequest EXCEPT
                           !.op = "acceptModelChanged", !.uri = strURL,
                           !.event = event.rawEvents, !.before = models]
    /\ nMut' = nMut - 1
    /\ AsIfChanged(strURL, event, last'.returned)
    /\ UNCHANGED <<sent, cellPair, ret,
                   dialogHandler, downloader, extensionChanged>>

\* $acceptRemovedModel resetting the whole registry
AcceptRemovedModelAll(strURL) ==
    /\ nMut > 0
    /\ models' = [u \in URIs |-> NoModel]
    /\ last' = [NoRequest EXCEPT !.op = "acceptRemovedModel",
                                 !.uri = strURL, !.before = models]
    /\ sent' = [u \in URIs |-> <<>>]
    /\ nMut' = nMut - 1
    /\ served' = [served EXCEPT ![strURL] = NoModel]
    /\ failed' = failed \ {strURL}
    /\ UNCHANGED <<cellPair, ret,
                   dialogHandler, downloader, extensionChanged>>

\* $acceptRemovedModel(strURL)
AcceptRemovedModel(strURL) ==
    /\ nMut > 0
    /\ models' = IF ~models[strURL].present THEN models
                 ELSE [models EXCEPT ![strURL] = NoModel]
    /\ last' = [NoRequest EXCEPT !.op = "acceptRemovedModel",
                                 !.uri = strURL, !.before = models]
    /\ sent' = IF ~models[strURL].present THEN sent
               ELSE [sent EXCEPT ![strURL] = <<>>]
    /\ nMut' = nMut - 1
    /\ served' = [served EXCEPT ![strURL] = NoModel]
    /\ failed' = failed \ {strURL}
    /\ UNCHANGED <<cellPair, ret,
                   dialogHandler, downloader, extensionChanged>>

\* The same diff by the worker that is spared the calls that throw: its
\* result and its registry afterwards
AsIfDiffed(o, m) ==
    LET a      == getElements(served[o])
        afterA == [served EXCEPT ![o].cells = a.cells]
        b      == getElements(afterA[m])
    IN  [served |-> [afterA EXCEPT ![m].cells = b.cells],
         result |-> LcsComputeDiff(a.elements, b.elements)]

\* The body of $computeDiff for a request (originalUrl, modifiedUrl) that
\* looks up its two mirrors under o and m.  The LcsDiff constructor reads
\* the elements of the original and then of the modified sequence.
DiffModels(originalUrl, modifiedUrl, o, m) ==
    \E a \in {getElements(getModel(o))} :
      \E afterA \in {IF a.threw = NoError
                      THEN [models EXCEPT ![o].cells = a.cells]
                      ELSE models} :
        \E b \in {getElements(afterA[m])} :
          LET request == [NoRequest EXCEPT
                            !.op = "computeDiff", !.uri = originalUrl,
                            !.uri2 = modifiedUrl, !.before = models]
          IN  /\ IF a.threw # NoError
                 THEN /\ models' = models
                      /\ last' = [request EXCEPT !.returned = FALSE,
                                                 !.threw = a.threw]
                      /\ UNCHANGED served
                      /\ failed' = failed \cup {originalUrl, modifiedUrl}
                 ELSE IF b.threw # NoError
                 THEN /\ models' = afterA
                      /\ last' = [request EXCEPT !.returned = FALSE,
                                                 !.threw = b.threw,
                                                 !.original = a.elements]
                      /\ UNCHANGED served
                      /\ failed' = failed \cup {originalUrl, modifiedUrl}
                 ELSE /\ models' = [afterA EXCEPT ![m].cells = b.cells]
                      /\ \E g \in {AsIfDiffed(o, m)} :
                            /\ served' = g.served
                            /\ last' = [request EXCEPT
                                           !.result =
                                              LcsComputeDiff(a.elements,
                                                             b.elements),
                                           !.original = a.elements,
                                           !.modified = b.elements,
                                           !.asIf = g.result]
                      /\ UNCHANGED failed
              /\ UNCHANGED <<sent, nMut, cellPair, ret,
                             dialogHandler, downloader, extensionChanged>>

\* $computeDiff with modified = this._getModel(originalUrl)
ComputeDiffSameModel(originalUrl, modifiedUrl) ==
    DiffModels(originalUrl, modifiedUrl, originalUrl, originalUrl)

\* $computeDiff with original and modified taken the other way round
ComputeDiffSwapped(originalUrl, modifiedUrl) ==
    DiffModels(originalUrl, modifiedUrl, modifiedUrl, originalUrl)

\* $computeDiff(originalUrl, modifiedUrl)
ComputeDiff(originalUrl, modifiedUrl) ==
    DiffModels(originalUrl, modifiedUrl, originalUrl, modifiedUrl)

\* the scan of one cell, lines 292-303: is there a match within the first
\* min(lineCount, 20) lines of the text
MaxScannedLines == 20

cellMatches(source) ==
    LET text == getValue([source |-> source])
    IN  findMatchesLineByLine(text, Min(getLineCount(text), MaxScannedLines))
           # {}

\* $canPromptRecommendation without the test of the cell kind
canPromptRecommendationAnyKind(cells) ==
    \E i \in DOMAIN cells :
        /\ cells[i].language = "python"
        /\ cellMatches(cells[i].source)

\* the loop of $canPromptRecommendation over the cells: true at the first
\* cell that is not Markup, is in python and has a match
canPromptRecommendation(cells) ==
    \E i \in DOMAIN cells :
        /\ cells[i].cellKind # Markup
        /\ cells[i].language = "python"
        /\ cellMatches(cells[i].source)

\* $canPromptRecommendation(modelUrl): reading .cells of a missing mirror
\* is a TypeError
CanPromptRecommendation(modelUrl) ==
    /\ last' = IF models[modelUrl].present
               THEN [NoRequest EXCEPT
                        !.op = "canPromptRecommendation", !.uri = modelUrl,
                        !.before = models,
                        !.found =
                           canPromptRecommendation(models[modelUrl].cells)]
               ELSE [NoRequest EXCEPT
                        !.op = "canPromptRecommendation", !.uri = modelUrl,
                        !.before = models, !.returned = FALSE,
                        !.threw = TypeError]
    /\ failed' = IF models[modelUrl].present THEN failed
                 ELSE failed \cup {modelUrl}
    /\ UNCHANGED <<models, sent, nMut, cellPair, ret, served,
                   dialogHandler, downloader, extensionChanged>>

NotebookDatas == {[cells |-> nb, metadata |-> Undefined] : nb \in Notebooks}

Events(n) ==
    {[rawEvents |-> es] :
        es \in UNION {[1..k -> RawEvents(n)] : k \in 1..MaxRawEvents}}

Next ==
    \/ \E uri \in URIs, data \in NotebookDatas : AcceptNewModel(uri, data)
    \/ \E uri \in URIs :
          \E event \in Events(Len(models[uri].cells)) :
             AcceptModelChanged(uri, event)
    \/ \E uri \in URIs : AcceptRemovedModel(uri)
    \/ \E u1 \in URIs, u2 \in URIs : ComputeDiff(u1, u2)
    \/ \E uri \in URIs : CanPromptRecommendation(uri)

Spec == Init /\ [][Next]_vars

----------------------------------------------------------------------------
(* Longer sessions over fewer inputs: up to MaxSessionCalls $accept*       *)
(* requests, and events of several raw events, the later ones with indices *)
(* that are valid only once the earlier ones have been applied.            *)

SessionNotebooks == {<<dX, dY>>, <<dZ>>}

SessionDatas ==
    {[cells |-> nb, metadata |-> Undefined] : nb \in SessionNotebooks}

\* for a mirror of n cells: insert dN in front, delete the first cell, move
\* the first cell to the end, set the outputs, the metadata and the
\* internal metadata of the first cell, and set the language of the first
\* cell and of the cell at index n
SessionRawEvents(n) ==
    {RawEvent(ModelChange, 0, 0, 0, <<<<0, 0, <<dN>>>>>>),
     RawEvent(ModelChange, 0, 0, 0, <<<<0, 1, <<>>>>>>),
     RawEvent(Move, 0, 1, Max(n - 1, 0), <<>>),
     RawEvent(OutputKind, 0, 0, 0, <<>>),
     RawEvent(ChangeCellMetadata, 0, 0, 0, <<>>),
     RawEvent(ChangeCellInternalMetadata, 0, 0, 0, <<>>),
     RawEvent(ChangeCellLanguage, 0, 0, 0, <<>>),
     RawEvent(ChangeCellLanguage, n, 0, 0, <<>>)}

\* the raw events that follow the first one of an event
SessionFollowUps(n) ==
    {RawEvent(OutputKind, 0, 0, 0, <<>>),
     RawEvent(ChangeCellLanguage, n, 0, 0, <<>>)}

SessionEvents(n) ==
    {[rawEvents |-> es] :
        es \in UNION {{<<e>> \o t : e \in SessionRawEvents(n),
                                    t \in [1..k -> SessionFollowUps(n)]} :
                         k \in 0..(MaxSessionRawEvents - 1)}}

InitSession ==
    /\ models = [u \in URIs |-> NoModel]
    /\ last = NoRequest
    /\ sent = [u \in URIs |-> <<>>]
    /\ nMut = MaxSessionCalls
    /\ cellPair = <<>>
    /\ ret = NoRet
    /\ served = [u \in URIs |-> NoModel]
    /\ failed = {}
    /\ dialogHandler = NotBuilt
    /\ downloader = NotBuilt
    /\ extensionChanged = NotBuilt

NextSession ==
    \/ \E uri \in URIs, data \in SessionDatas : AcceptNewModel(uri, data)
    \/ \E uri \in URIs :
          \E event \in SessionEvents(Len(models[uri].cells)) :
             AcceptModelChanged(uri, event)
    \/ \E uri \in URIs : AcceptRemovedModel(uri)
    \/ \E u1 \in URIs, u2 \in URIs : ComputeDiff(u1, u2)

SpecSession == InitSession /\ [][NextSession]_vars

----------------------------------------------------------------------------
(* Notebooks for $canPromptRecommendation: cells with and without a pandas *)
(* import, in code and markup cells, in python and in another language,    *)
(* on the first line, on line 20 and on line 21.                           *)

Blank(n) == [i \in 1..n |-> ""]

pImport == CellDto(11, Str("import pandas as pd"), "python", Code, <<>>, Undefined, Undefined)
pMarkup == CellDto(12, Str("import pandas as pd"), "python", Markup, <<>>, Undefined, Undefined)
pOther  == CellDto(13, Str("import pandas as pd"), "markdown", Code, <<>>, Undefined, Undefined)
pLate   == CellDto(14, Lines(Blank(20) \o <<"import pandas as pd">>), "python", Code, <<>>, Undefined, Undefined)
pLine20 == CellDto(15, Lines(Blank(19) \o <<"from pandas import x">>), "python", Code, <<>>, Undefined, Undefined)
pMixed  == CellDto(16, Str("import numpy\nFrom  Pandas"), "python", Code, <<>>, Undefined, Undefined)
pNone   == CellDto(17, Str("import numpy"), "python", Code, <<>>, Undefined, Undefined)

PromptCellDtos == {pImport, pMarkup, pOther, pLate, pLine20, pMixed, pNone}

PromptNotebooks ==
    {nb \in SeqsUpTo(PromptCellDtos, 2) :
        \A i, j \in DOMAIN nb : i < j => nb[i].handle < nb[j].handle}

PromptDatas ==
    {[cells |-> nb, metadata |-> Undefined] : nb \in PromptNotebooks}

\* the language of the first or of the second cell set to "markdown"
PromptEvents ==
    {[rawEvents |-> <<RawEvent(ChangeCellLanguage, i, 0, 0, <<>>)>>] :
        i \in 0..1}

InitPrompt ==
    /\ models = [u \in URIs |-> NoModel]
    /\ last = NoRequest
    /\ sent = [u \in URIs |-> <<>>]
    /\ nMut = MaxMutations
    /\ cellPair = <<>>
    /\ ret = NoRet
    /\ served = [u \in URIs |-> NoModel]
    /\ failed = {}
    /\ dialogHandler = NotBuilt
    /\ downloader = NotBuilt
    /\ extensionChanged = NotBuilt

NextPrompt ==
    \/ \E uri \in URIs, data \in PromptDatas : AcceptNewModel(uri, data)
    \/ \E uri \in URIs, event \in PromptEvents :
          AcceptModelChanged(uri, event)
    \/ \E uri \in URIs : CanPromptRecommendation(uri)

SpecPrompt == InitPrompt /\ [][NextPrompt]_vars

----------------------------------------------------------------------------
(* The MirrorCell class used on its own: two cells built from DTOs, and    *)
(* their hash methods called in any order.                                 *)

cellFromDto(dto) ==
    MirrorCell(dto.handle, dto.source, dto.language, dto.cellKind,
               dto.outputs, dto.metadata, dto.internalMetadata)

InitCell ==
    /\ models = [u \in URIs |-> NoModel]
    /\ last = NoRequest
    /\ sent = [u \in URIs |-> <<>>]
    /\ nMut = MaxMutations
    /\ cellPair \in {<<cellFromDto(d1), cellFromDto(d2)>> :
                        d1 \in CellDtos, d2 \in CellDtos}
    /\ ret = NoRet
    /\ served = [u \in URIs |-> NoModel]
    /\ failed = {}
    /\ dialogHandler = NotBuilt
    /\ downloader = NotBuilt
    /\ extensionChanged = NotBuilt

CallGetComparisonValue(i) ==
    LET r == getComparisonValue(cellPair[i])
    IN  /\ cellPair' = [cellPair EXCEPT ![i] = r.cell]
        /\ ret' = [ret EXCEPT !.cmp[i] = Num(r.value)]
        /\ UNCHANGED <<models, last, sent, nMut, served, failed,
                       dialogHandler, downloader, extensionChanged>>

CallGetHashValue(i) ==
    LET r == getHashValue(cellPair[i])
    IN  /\ cellPair' = [cellPair EXCEPT ![i] = r.cell]
        /\ ret' = [ret EXCEPT !.hsh[i] = Num(r.value)]
        /\ UNCHANGED <<models, last, sent, nMut, served, failed,
                       dialogHandler, downloader, extensionChanged>>

NextCell ==
    \/ \E i \in 1..2 : CallGetComparisonValue(i)
    \/ \E i \in 1..2 : CallGetHashValue(i)

SpecCell == InitCell /\ [][NextCell]_vars

----------------------------------------------------------------------------
(* DialogHandlerContribution, unnamed/part_007:20-78, over the dialogs     *)
(* model of the dialog service.  dialogHandler holds                      *)
(*   dialogs        this.model.dialogs, the queue of dialog items          *)
(*   currentDialog  this.currentDialog, an item or NoDialog                *)
(*   loops          the activations of processDialogs, each suspended at   *)
(*                  its await: the item whose handler call it waits for    *)
(*   shown          how many dialogs were shown so far                     *)
(*   started        the ids of the dialogs in the order their handler      *)
(*                  calls were started                                     *)
(*   closed         the close() calls made, in order: item id and result   *)
(*   errors         the activations that ended with a thrown error         *)

MaxDialogs == 3   \* dialogs shown in one run

\* the args of a dialog: confirmArgs, inputArgs, promptArgs or none (about)
DialogKinds == {"confirm", "input", "prompt", "about"}

NoDialog == [id |-> 0, kind |-> "none"]

\* processDialogs() from the head of the while loop to its next await, or
\* to its end when the queue is empty: the handler call for the first
\* dialog of the queue is started
processDialogs(d) ==
    IF d.dialogs = <<>> THEN d
    ELSE [d EXCEPT !.currentDialog = Head(d.dialogs),
                   !.loops = Append(@, Head(d.dialogs)),
                   !.started = Append(@, Head(d.dialogs).id)]

\* the listener without the test of this.currentDialog
onWillShowDialogUnguarded(d) ==
    processDialogs(d)

\* the listener of this.model.onWillShowDialog
onWillShowDialog(d) ==
    IF d.currentDialog = NoDialog THEN processDialogs(d) ELSE d

\* model.show(args): the item is queued and onWillShowDialog fires
show(d, kind) ==
    onWillShowDialog([d EXCEPT
                         !.dialogs = Append(@, [id |-> d.shown + 1,
                                                kind |-> kind]),
                         !.shown = @ + 1])

\* item.close(result): the item leaves the queue
close(d, item, result) ==
    [d EXCEPT !.dialogs = SelectSeq(@, LAMBDA x : x # item),
              !.closed = Append(@, [id |-> item.id, result |-> result])]

WithoutLoop(loops, k) ==
    SubSeq(loops, 1, k - 1) \o SubSeq(loops, k + 1, Len(loops))

\* what the await of the handler call for the item gives: the result of
\* confirm, input or prompt, undefined after about, or the error caught
handlerResult(item, outcome) ==
    IF outcome = "error" THEN [error |-> TRUE, of |-> item.id]
    ELSE IF item.kind = "about" THEN Undefined
    ELSE [error |-> FALSE, of |-> item.id]

\* the k-th activation of processDialogs goes on after its await: it closes
\* this.currentDialog with the result, clears the field and returns to
\* the head of the loop.  Calling close on undefined is a TypeError that
\* ends the activation.
resume(d, k, outcome) ==
    IF d.currentDialog = NoDialog
    THEN [d EXCEPT !.loops = WithoutLoop(@, k), !.errors = @ + 1]
    ELSE processDialogs(
             [close(d, d.currentDialog, handlerResult(d.loops[k], outcome))
                 EXCEPT !.currentDialog = NoDialog,
                        !.loops = WithoutLoop(@, k)])

\* the worker of the first part of the module, not in use
NoWorker ==
    /\ models = [u \in URIs |-> NoModel]
    /\ last = NoRequest
    /\ sent = [u \in URIs |-> <<>>]
    /\ nMut = 0
    /\ cellPair = <<>>
    /\ ret = NoRet
    /\ served = [u \in URIs |-> NoModel]
    /\ failed = {}

workerVars == <<models, last, sent, nMut, cellPair, ret, served, failed>>

\* the dialogs queued before the contribution is built
DialogsAtStart ==
    {<<>>, <<[id |-> 1, kind |-> "confirm"]>>,
     <<[id |-> 1, kind |-> "about"], [id |-> 2, kind |-> "input"]>>}

\* constructor: the listener is registered and processDialogs() is called
InitDialogs ==
    /\ NoWorker
    /\ dialogHandler \in
          {processDialogs([built |-> TRUE, dialogs |-> q,
                           currentDialog |-> NoDialog, loops |-> <<>>,
                           shown |-> Len(q), started |-> <<>>,
                           closed |-> <<>>, errors |-> 0]) :
             q \in DialogsAtStart}
    /\ downloader = NotBuilt
    /\ extensionChanged = NotBuilt

\* the dialog service shows a dialog
ShowDialog(kind) ==
    /\ dialogHandler.shown < MaxDialogs
    /\ dialogHandler' = show(dialogHandler, kind)
    /\ UNCHANGED <<workerVars, downloader, extensionChanged>>

\* the promise of a pending handler call settles
HandlerSettles(k, outcome) ==
    /\ k \in DOMAIN dialogHandler.loops
    /\ dialogHandler' = resume(dialogHandler, k, outcome)
    /\ UNCHANGED <<workerVars, downloader, extensionChanged>>

Settles == \E k \in 1..MaxDialogs, outcome \in {"result", "error"} :
              HandlerSettles(k, outcome)

NextDialogs ==
    \/ \E kind \in DialogKinds : ShowDialog(kind)
    \/ \E k \in 1..MaxDialogs, outcome \in {"result", "error"} :
          HandlerSettles(k, outcome)

\* every handler call settles in the end
SpecDialogs == InitDialogs /\ [][NextDialogs]_vars /\ WF_vars(Settles)

----------------------------------------------------------------------------
(* ExtensionsDownloader, extensionDownloader.ts:27-200, for the downloads  *)
(* of one gallery extension.  downloader holds                             *)
(*   cleanUp  the state of this.cleanUpPromise: "running" or "done"        *)
(*   files    the files of the extension in extensionsDownloadDir          *)
(*   calls    the download() calls: where each is suspended, whether its   *)
(*            verify() threw, the files its delete() calls removed and     *)
(*            how it ended                                                 *)
(*   early    a download or delete touched the directory while cleanUp     *)
(*            was running                                                  *)

MaxDownloads == 2   \* download() calls in one run

Vsix == "vsix"                \* location, line 54
SignatureArchive == "sigzip"  \* signatureArchiveLocation, line 96

NoCall ==
    [pc |-> "idle", verifyThrew |-> FALSE, deleted |-> {},
     outcome |-> "pending", verified |-> FALSE]

\* await this.cleanUpPromise goes on once cleanUp() has returned; cleanUp
\* catches every error, so the promise is never rejected
cleanUpDone(d) == d.cleanUp = "done"

\* downloadFile(extension, location, downloadFn): nothing is done when the
\* file exists; else it is downloaded and renamed into place, or an error
\* is thrown and the file is not there
downloadFile(files, location, ok) ==
    IF location \in files THEN [files |-> files, threw |-> FALSE]
    ELSE IF ok THEN [files |-> files \cup {location}, threw |-> FALSE]
    ELSE [files |-> files, threw |-> TRUE]

\* fileService.del(location): the file is removed, or the promise is
\* rejected and the file stays
del(files, location, ok) ==
    IF ok THEN [files |-> files \ {location}, threw |-> FALSE]
    ELSE [files |-> files, threw |-> TRUE]

\* the call goes on to pc
GoOn(c, pc) ==
    [downloader.calls EXCEPT ![c].pc = pc]

\* the call ends with the outcome
End(c, outcome) ==
    [downloader.calls EXCEPT ![c].pc = "done", ![c].outcome = outcome]

\* constructor: this.cleanUpPromise = this.cleanUp()
InitDownload ==
    /\ NoWorker
    /\ dialogHandler = NotBuilt
    /\ downloader \in
          {[built |-> TRUE, cleanUp |-> "running", files |-> fs,
            calls |-> [c \in 1..MaxDownloads |-> NoCall],
            early |-> FALSE] : fs \in SUBSET {Vsix, SignatureArchive}}
    /\ extensionChanged = NotBuilt

\* cleanUp() returns: the signature archives are deleted and the newest
\* VSIX of an extension is kept; a del that fails is ignored
CleanUpFinishes(delOk) ==
    /\ downloader.cleanUp = "running"
    /\ downloader' = [downloader EXCEPT
                         !.cleanUp = "done",
                         !.files = del(@, SignatureArchive, delOk).files]
    /\ UNCHANGED <<workerVars, dialogHandler, extensionChanged>>

\* download(extension, operation) is called; it waits for cleanUpPromise
Download(c) ==
    /\ downloader.calls[c].pc = "idle"
    /\ downloader' = [downloader EXCEPT !.calls = GoOn(c, "download")]
    /\ UNCHANGED <<workerVars, dialogHandler, extensionChanged>>

\* lines 54-59: the VSIX is downloaded, or download rejects with the code
\* Download
DownloadVsix(c, ok) ==
    /\ downloader.calls[c].pc = "download"
    /\ cleanUpDone(downloader)
    /\ LET r == downloadFile(downloader.files, Vsix, ok)
       IN  downloader' = [downloader EXCEPT
               !.files = r.files,
               !.early = @ \/ downloader.cleanUp # "done",
               !.calls = IF r.threw THEN End(c, "Download")
                         ELSE GoOn(c, "check")]
    /\ UNCHANGED <<workerVars, dialogHandler, extensionChanged>>

\* lines 61-62 and 74: checkForVerification; without verification
\* download resolves with verified false
CheckForVerification(c, verify) ==
    /\ downloader.calls[c].pc = "check"
    /\ downloader' = [downloader EXCEPT
            !.calls = IF verify THEN GoOn(c, "signature")
                      ELSE End(c, "resolved")]
    /\ UNCHANGED <<workerVars, dialogHandler, extensionChanged>>

\* line 63, downloadSignatureArchive: waits for cleanUpPromise and
\* downloads the archive; its error is the error of download
DownloadSignatureArchive(c, ok) ==
    /\ downloader.calls[c].pc = "signature"
    /\ cleanUpDone(downloader)
    /\ LET r == downloadFile(downloader.files, SignatureArchive, ok)
       IN  downloader' = [downloader EXCEPT
               !.files = r.files,
               !.early = @ \/ downloader.cleanUp # "done",
               !.calls = IF r.threw THEN End(c, "error")
                         ELSE GoOn(c, "verify")]
    /\ UNCHANGED <<workerVars, dialogHandler, extensionChanged>>

\* lines 65-67 and 74: verify returns and download resolves with its
\* value, or verify throws
Verify(c, result) ==
    /\ downloader.calls[c].pc = "verify"
    /\ downloader' = [downloader EXCEPT
            !.calls = IF result = "throws"
                      THEN [GoOn(c, "deleteSignature")
                               EXCEPT ![c].verifyThrew = TRUE]
                      ELSE [End(c, "resolved")
                               EXCEPT ![c].verified = (result = "true")]]
    /\ UNCHANGED <<workerVars, dialogHandler, extensionChanged>>

\* line 68: await this.delete(signatureArchiveLocation); a rejection of
\* del leaves the catch block and is the error of download
DeleteSignature(c, ok) ==
    /\ downloader.calls[c].pc = "deleteSignature"
    /\ cleanUpDone(downloader)
    /\ LET r == del(downloader.files, SignatureArchive, ok)
       IN  downloader' = [downloader EXCEPT
               !.files = r.files,
               !.early = @ \/ downloader.cleanUp # "done",
               !.calls = IF r.threw THEN End(c, "error")
                         ELSE [GoOn(c, "deleteVsix") EXCEPT
                                  ![c].deleted = @ \cup {SignatureArchive}]]
    /\ UNCHANGED <<workerVars, dialogHandler, extensionChanged>>

\* lines 69-70: await this.delete(location), then download rejects with
\* the code Signature
DeleteVsix(c, ok) ==
    /\ downloader.calls[c].pc = "deleteVsix"
    /\ cleanUpDone(downloader)
    /\ LET r == del(downloader.files, Vsix, ok)
       IN  downloader' = [downloader EXCEPT
               !.files = r.files,
               !.early = @ \/ downloader.cleanUp # "done",
               !.calls = IF r.threw THEN End(c, "error")
                         ELSE [End(c, "Signature") EXCEPT
                                  ![c].deleted = @ \cup {Vsix}]]
    /\ UNCHANGED <<workerVars, dialogHandler, extensionChanged>>

NextDownload ==
    \/ \E delOk \in BOOLEAN : CleanUpFinishes(delOk)
    \/ \E c \in 1..MaxDownloads : Download(c)
    \/ \E c \in 1..MaxDownloads, ok \in BOOLEAN : DownloadVsix(c, ok)
    \/ \E c \in 1..MaxDownloads, verify \in BOOLEAN :
          CheckForVerification(c, verify)
    \/ \E c \in 1..MaxDownloads, ok \in BOOLEAN :
          DownloadSignatureArchive(c, ok)
    \/ \E c \in 1..MaxDownloads, result \in {"true", "false", "throws"} :
          Verify(c, result)
    \/ \E c \in 1..MaxDownloads, ok \in BOOLEAN : DeleteSignature(c, ok)
    \/ \E c \in 1..MaxDownloads, ok \in BOOLEAN : DeleteVsix(c, ok)

SpecDownload == InitDownload /\ [][NextDownload]_vars

----------------------------------------------------------------------------
(* onExtensionChanged, unnamed/part_010:22-42: the install, uninstall and  *)
(* enablement events of the extension services, debounced into one event   *)
(* of extension identifiers.  extensionChanged holds                       *)
(*   output    the list merged so far in the open debounce window, or      *)
(*             NoOutput (undefined) when no window is open                 *)
(*   occurred  the identifiers of the events received in the open window   *)
(*   emitted   the last list the debounced event fired with, and the       *)
(*             identifiers that had occurred in its window                 *)
(*   received  how many events were received so far                        *)

MaxEvents == 3        \* events received in one run
MaxIdentifiers == 2   \* identifiers carried by one event

\* IExtensionIdentifier: id, and uuid or "" for none
IdA  == [id |-> "pub.a", uuid |-> "uuid-a"]
IdA2 == [id |-> "pub.a", uuid |-> ""]
IdB  == [id |-> "pub.b", uuid |-> "uuid-b"]
Identifiers == {IdA, IdA2, IdB}

\* areSameExtensions(a, b): by uuid when both have one, else by id
areSameExtensions(a, b) ==
    IF a.uuid # "" /\ b.uuid # "" THEN a.uuid = b.uuid ELSE a.id = b.id

NoOutput == [defined |-> FALSE, list |-> <<>>]
NoEmission == [fired |-> FALSE, list |-> <<>>, occurred |-> {}]

\* the for loop of the merge function, lines 34-38: the identifier is
\* pushed when some entry of result is not the same extension
RECURSIVE pushIdentifiers(_, _)
pushIdentifiers(result, identifiers) ==
    IF identifiers = <<>> THEN result
    ELSE pushIdentifiers(
             IF \E i \in DOMAIN result :
                   ~areSameExtensions(result[i], Head(identifiers))
             THEN Append(result, Head(identifiers))
             ELSE result,
             Tail(identifiers))

\* the merge function of the debounce, lines 32-41
merge(result, identifiers) ==
    pushIdentifiers(
        IF result.defined THEN result.list
        ELSE IF identifiers # <<>> THEN <<identifiers[1]>> ELSE <<>>,
        identifiers)

\* Event.debounce on an incoming event: the merge function is applied to
\* the output so far and the event, and the window stays open
debounce(d, identifiers) ==
    [d EXCEPT !.output = [defined |-> TRUE,
                          list |-> merge(d.output, identifiers)],
              !.occurred = @ \cup {identifiers[i] : i \in DOMAIN identifiers},
              !.received = @ + 1]

IdentifierLists ==
    UNION {[1..n -> Identifiers] : n \in 0..MaxIdentifiers}

InstallOperations == {"Install", "Update"}

\* the results of an onDidInstallExtensions event
InstallResults ==
    UNION {[1..n -> [identifier : Identifiers,
                     operation : InstallOperations]] :
              n \in 1..MaxIdentifiers}

\* invokeFunction(onExtensionChanged): no window is open
InitExtensionChanged ==
    /\ NoWorker
    /\ dialogHandler = NotBuilt
    /\ downloader = NotBuilt
    /\ extensionChanged = [built |-> TRUE, output |-> NoOutput,
                           occurred |-> {}, emitted |-> NoEmission,
                           received |-> 0]

\* extensionService.onDidInstallExtensions fires: lines 25-28 let the
\* event through when one of its results is an Install, as the list of
\* the identifiers of all its results
DidInstallExtensions(results) ==
    /\ extensionChanged.received < MaxEvents
    /\ extensionChanged' =
          IF \E i \in DOMAIN results : results[i].operation = "Install"
          THEN debounce(extensionChanged,
                        [i \in DOMAIN results |-> results[i].identifier])
          ELSE [extensionChanged EXCEPT !.received = @ + 1]
    /\ UNCHANGED <<workerVars, dialogHandler, downloader>>

\* extensionService.onDidUninstallExtension fires, line 30
DidUninstallExtension(identifier) ==
    /\ extensionChanged.received < MaxEvents
    /\ extensionChanged' = debounce(extensionChanged, <<identifier>>)
    /\ UNCHANGED <<workerVars, dialogHandler, downloader>>

\* extensionEnablementService.onEnablementChanged fires, line 31
EnablementChanged(identifiers) ==
    /\ extensionChanged.received < MaxEvents
    /\ extensionChanged' = debounce(extensionChanged, identifiers)
    /\ UNCHANGED <<workerVars, dialogHandler, downloader>>

\* the debounce delay passes: the merged list is emitted to the listener
\* of lines 65-68 and the window is closed
DebounceFires ==
    /\ extensionChanged.output.defined
    /\ extensionChanged' =
          [extensionChanged EXCEPT
              !.emitted = [fired |-> TRUE, list |-> extensionChanged.output.list,
                           occurred |-> extensionChanged.occurred],
              !.output = NoOutput,
              !.occurred = {}]
    /\ UNCHANGED <<workerVars, dialogHandler, downloader>>

NextExtensionChanged ==
    \/ \E results \in InstallResults : DidInstallExtensions(results)
    \/ \E identifier \in Identifiers : DidUninstallExtension(identifier)
    \/ \E identifiers \in IdentifierLists : EnablementChanged(identifiers)
    \/ DebounceFires

SpecExtensionChanged ==
    InitExtensionChanged /\ [][NextExtensionChanged]_vars

----------------------------------------------------------------------------
(* Properties of the worker.                                               *)

Changed == last.op = "acceptModelChanged" /\ last.before[last.uri].present
Diffed  == last.op = "computeDiff"

OutOfBounds(index, length) == index < 0 \/ index >= length

\* the raw events of the last $acceptModelChanged that were reached
Reached == 1..Len(last.counts)

\* C1: $computeDiff throws whenever one of its two URLs has no registered
\* mirror, and then returns no diff result.
C1_MissingMirrorThrows ==
    Diffed /\ (~last.before[last.uri].present
               \/ ~last.before[last.uri2].present)
        => ~last.returned /\ last.threw # NoError /\ last.result = NoDiff

C1_Witness ==
    /\ Diffed
    /\ last.before[last.uri].present
    /\ ~last.before[last.uri2].present
    /\ ~last.returned

\* C2: a ChangeCellLanguage raw event whose index is outside the cell list
\* throws the Illegal-index error and leaves the mirror as the raw event
\* found it.
C2_LanguageIndexChecked ==
    Changed =>
        /\ \A k \in Reached :
              /\ last.event[k].kind = ChangeCellLanguage
              /\ OutOfBounds(last.event[k].index, last.counts[k])
              => last.failedAt = k
        /\ (last.failedAt > 0
            /\ last.event[last.failedAt].kind = ChangeCellLanguage)
           => /\ ~last.returned
              /\ last.threw = IllegalIndex(last.event[last.failedAt].index,
                                           last.counts[last.failedAt])
              /\ models[last.uri].cells = last.beforeRaw
              /\ \A u \in URIs \ {last.uri} : models[u] = last.before[u]

C2_Witness ==
    /\ Changed
    /\ last.failedAt = 1
    /\ last.event[1].kind = ChangeCellLanguage
    /\ last.event[1].index >= Len(last.before[last.uri].cells)
    /\ Len(last.before[last.uri].cells) > 0
    /\ models = last.before

\* C3: every update raw event (Output, ChangeCellLanguage,
\* ChangeCellMetadata, ChangeCellInternalMetadata) with an index outside the
\* cell list throws an error that names the index and the cell count.
C3_UpdateIndexIdentified ==
    Changed =>
        \A k \in Reached :
            /\ last.event[k].kind \in UpdateKinds
            /\ OutOfBounds(last.event[k].index, last.counts[k])
            => /\ last.failedAt = k
               /\ last.threw = IllegalIndex(last.event[k].index,
                                            last.counts[k])

\* C4: a Move raw event whose source index is outside the cell list throws;
\* it never completes normally.
C4_MoveIndexChecked ==
    Changed =>
        \A k \in Reached :
            /\ last.event[k].kind = Move
            /\ OutOfBounds(last.event[k].index, last.counts[k])
            => last.failedAt = k /\ ~last.returned

\* the list with the run of L cells at i taken out and put back at j
MoveRun(cells, i, L, j) ==
    LET run  == SubSeq(cells, i + 1, i + L)
        rest == SubSeq(cells, 1, i) \o SubSeq(cells, i + L + 1, Len(cells))
    IN  SubSeq(rest, 1, j) \o run \o SubSeq(rest, j + 1, Len(rest))

\* C5: a Move raw event (index i, length L, newIdx j) relocates the whole run
\* of L cells that starts at i, in order, so that it starts at j.
C5_MoveRelocatesRun ==
    /\ Changed
    /\ Len(last.event) = 1
    /\ last.event[1].kind = Move
    /\ last.event[1].index >= 0
    /\ last.event[1].index + last.event[1].length
          <= Len(last.before[last.uri].cells)
    /\ last.event[1].newIdx + last.event[1].length
          <= Len(last.before[last.uri].cells)
    => models[last.uri].cells =
          MoveRun(last.before[last.uri].cells, last.event[1].index,
                  last.event[1].length, last.event[1].newIdx)

\* the raw event of a $acceptModelChanged that carried exactly one
OnlyEvent == last.event[1]
OldCells == last.before[last.uri].cells
NewCells == models[last.uri].cells

\* C25: a Move of one cell from index i to newIdx j, both within the list,
\* leaves the moved cell at position j of the resulting list, forwards and
\* backwards, and keeps the length and the relative order of the other
\* cells.
C25_MoveOneCell ==
    (/\ Changed
     /\ Len(last.event) = 1
     /\ OnlyEvent.kind = Move
     /\ OnlyEvent.length = 1
     /\ HasCell(OldCells, OnlyEvent.index)
     /\ HasCell(OldCells, OnlyEvent.newIdx))
    => /\ last.returned
       /\ Len(NewCells) = Len(OldCells)
       /\ NewCells[OnlyEvent.newIdx + 1] = OldCells[OnlyEvent.index + 1]
       /\ \A a \in DOMAIN OldCells, b \in DOMAIN OldCells :
             (a < b /\ a # OnlyEvent.index + 1 /\ b # OnlyEvent.index + 1)
             => \E x \in DOMAIN NewCells, y \in DOMAIN NewCells :
                   /\ x < y
                   /\ NewCells[x] = OldCells[a]
                   /\ NewCells[y] = OldCells[b]

\* a forward move over two cells
C25_Witness ==
    /\ Changed
    /\ last.returned
    /\ Len(last.event) = 1
    /\ OnlyEvent.kind = Move
    /\ OnlyEvent.length = 1
    /\ OnlyEvent.index = 0
    /\ OnlyEvent.newIdx = 2
    /\ Len(OldCells) = 3
    /\ NewCells[3] = OldCells[1]

\* the splices are listed in ascending order, do not overlap and lie within
\* a list of n cells
AscendingSplices(splices, n) ==
    /\ \A k \in DOMAIN splices :
          /\ splices[k][1] >= 0
          /\ splices[k][2] >= 0
          /\ splices[k][1] + splices[k][2] <= n
    /\ \A k \in 1..(Len(splices) - 1) :
          splices[k][1] + splices[k][2] <= splices[k + 1][1]

\* all the splices from the k-th on applied at once to the list old, every
\* start index and delete count read against old; pos is where the
\* previous splice ended
RECURSIVE Simultaneously(_, _, _, _)
Simultaneously(old, splices, k, pos) ==
    IF k > Len(splices) THEN SubSeq(old, pos + 1, Len(old))
    ELSE SubSeq(old, pos + 1, splices[k][1])
         \o [i \in DOMAIN splices[k][3] |-> newMirrorCell(splices[k][3][i])]
         \o Simultaneously(old, splices, k + 1,
                           splices[k][1] + splices[k][2])

\* C26: a ModelChange raw event with several splices in ascending,
\* non-overlapping order gives the list that results from applying all the
\* splices at once to the list before the event.
C26_SplicesAgainstOldList ==
    (/\ Changed
     /\ Len(last.event) = 1
     /\ OnlyEvent.kind = ModelChange
     /\ Len(OnlyEvent.changes) > 1
     /\ AscendingSplices(OnlyEvent.changes, Len(OldCells)))
    => /\ last.returned
       /\ NewCells = Simultaneously(OldCells, OnlyEvent.changes, 1, 0)

\* two splices of which the first shortens the list: a deletion at 0 and a
\* replacement at 1
C26_Witness ==
    /\ Changed
    /\ last.returned
    /\ Len(last.event) = 1
    /\ OnlyEvent.kind = ModelChange
    /\ Len(OnlyEvent.changes) = 2
    /\ OnlyEvent.changes[1] = <<0, 1, <<>>>>
    /\ OnlyEvent.changes[2][1] = 1
    /\ OnlyEvent.changes[2][2] = 1
    /\ Len(OnlyEvent.changes[2][3]) = 1
    /\ Len(OldCells) = 3
    /\ Len(NewCells) = 2
    /\ NewCells[2] = OldCells[3]

\* the cell as the raw event's assignment leaves it
WithField(cell, e) ==
    CASE e.kind = OutputKind -> [cell EXCEPT !.outputs = e.outputs]
      [] e.kind = ChangeCellLanguage -> [cell EXCEPT !.language = e.language]
      [] e.kind = ChangeCellMetadata -> [cell EXCEPT !.metadata = e.metadata]
      [] e.kind = ChangeCellInternalMetadata ->
            [cell EXCEPT !.internalMetadata = e.internalMetadata]

\* C27: an Output, ChangeCellLanguage, ChangeCellMetadata or
\* ChangeCellInternalMetadata raw event with an index inside the list
\* changes the named field of the cell at that index and nothing else: not
\* the cell count, not the other fields of the cell, no other cell and no
\* mirror of another URI.
C27_UpdateChangesOneField ==
    (/\ Changed
     /\ Len(last.event) = 1
     /\ OnlyEvent.kind \in UpdateKinds
     /\ HasCell(OldCells, OnlyEvent.index))
    => /\ last.returned
       /\ Len(NewCells) = Len(OldCells)
       /\ \A i \in DOMAIN OldCells :
             NewCells[i] = IF i = OnlyEvent.index + 1
                           THEN WithField(OldCells[i], OnlyEvent)
                           ELSE OldCells[i]
       /\ \A u \in URIs \ {last.uri} : models[u] = last.before[u]

\* new outputs for the first of two cells, which has a cached hash, while a
\* second mirror is registered
C27_Witness ==
    /\ Changed
    /\ last.returned
    /\ Len(last.event) = 1
    /\ OnlyEvent.kind = OutputKind
    /\ OnlyEvent.index = 0
    /\ Len(OldCells) = 2
    /\ OldCells[1].hash.set
    /\ OldCells[1].outputs # OnlyEvent.outputs
    /\ NewCells[1].outputs = OnlyEvent.outputs
    /\ NewCells[1].hash = OldCells[1].hash
    /\ \E u \in URIs \ {last.uri} : models[u].present

----------------------------------------------------------------------------
(* Properties of the registry.                                             *)

Registered == last.op = "acceptNewModel"
Removed    == last.op = "acceptRemovedModel"

\* the cell is a mirror cell newly built from the DTO: the DTO's handle,
\* source, language, kind, outputs and metadata, and no hash yet
FreshFrom(cell, dto) ==
    /\ cell.handle = dto.handle
    /\ cell.source = dto.source
    /\ cell.language = dto.language
    /\ cell.cellKind = dto.cellKind
    /\ cell.outputs = dto.outputs
    /\ cell.metadata = dto.metadata
    /\ cell.hash = Null

\* C11: after $acceptNewModel(uri, data) the registry holds a mirror for uri
\* with one cell per DTO of data.cells, in the same order and with the DTOs'
\* handles, whatever mirror uri had before: nothing of a previous mirror or
\* of the change events applied to it is left.
C11_NewModelReplaces ==
    Registered =>
        /\ models[last.uri].present
        /\ Len(models[last.uri].cells) = Len(last.data)
        /\ \A i \in DOMAIN last.data :
              FreshFrom(models[last.uri].cells[i], last.data[i])

\* the previous mirror held a cell that a change event had inserted and a
\* cell whose language a change event had set
C11_Witness ==
    /\ Registered
    /\ last.before[last.uri].present
    /\ \E i, j \in DOMAIN last.before[last.uri].cells :
          /\ last.before[last.uri].cells[i].handle = dN.handle
          /\ last.before[last.uri].cells[j].handle # dN.handle
          /\ last.before[last.uri].cells[j].language = "markdown"
    /\ Len(last.data) = 1
    /\ FreshFrom(models[last.uri].cells[1], last.data[1])

\* C12: $acceptModelChanged for a uri without a mirror returns normally and
\* leaves the registry and every mirror as they were, whatever the kinds and
\* indices of the raw events.
C12_AbsentMirrorIgnored ==
    (last.op = "acceptModelChanged" /\ ~last.before[last.uri].present)
    => /\ last.returned
       /\ last.threw = NoError
       /\ models = last.before

C12_Witness ==
    /\ last.op = "acceptModelChanged"
    /\ ~last.before[last.uri].present
    /\ \E u \in URIs : last.before[u].present
    /\ last.event[1].kind = ChangeCellLanguage
    /\ last.event[1].index = -1
    /\ last.returned
    /\ models = last.before

\* C13: $acceptRemovedModel(uri) never throws, leaves no mirror for uri,
\* whether or not there was one, and leaves the mirrors of all other URIs
\* as they were.
C13_RemoveOnlyThatMirror ==
    Removed =>
        /\ last.returned
        /\ ~models[last.uri].present
        /\ \A u \in URIs \ {last.uri} : models[u] = last.before[u]

C13_Witness ==
    /\ Removed
    /\ last.before[last.uri].present
    /\ ~models[last.uri].present
    /\ \E u \in URIs \ {last.uri} :
          models[u].present /\ models[u] = last.before[u]

\* the URIs the last call was made for
CallUris == IF Diffed THEN {last.uri, last.uri2} ELSE {last.uri}

\* C14: a call that throws leaves the mirrors of all URIs but its own as
\* they were, and from then on every mirror of another URI, and every diff
\* of such mirrors, is what it is in the worker that never got the throwing
\* calls.
C14_ServesAfterFailure ==
    /\ ~last.returned
          => \A u \in URIs \ CallUris : models[u] = last.before[u]
    /\ \A u \in URIs \ failed : models[u] = served[u]
    /\ (Diffed /\ last.returned /\ CallUris \cap failed = {})
          => last.result = last.asIf

\* a change event threw half way for one URI, and a mirror registered for
\* another URI afterwards is diffed
C14_Witness ==
    /\ Diffed
    /\ last.returned
    /\ Len(last.original) > 0
    /\ failed # {}
    /\ CallUris \cap failed = {}
    /\ \E u \in failed : models[u].present /\ models[u] # served[u]
    /\ \A u \in URIs \ failed : models[u] = served[u]

\* the cell list after the raw events have been applied one after the
\* other, each to the list the one before it left
RECURSIVE OneByOne(_, _)
OneByOne(cells, rawEvents) ==
    IF rawEvents = <<>> THEN cells
    ELSE OneByOne(applyRawEvent(cells, Head(rawEvents)).cells,
                  Tail(rawEvents))

Backwards(rawEvents) ==
    [k \in DOMAIN rawEvents |-> rawEvents[Len(rawEvents) + 1 - k]]

C22_ThrowLeavesMirrorUntouched ==
    (Changed /\ ~last.returned)
    => models[last.uri].cells = last.before[last.uri].cells

\* C16: a ModelChange raw event with the single splice [i, N, newCells],
\* i + N within the list, leaves the cells before i, then one new mirror
\* cell per DTO of newCells in order, then the cells from i + N on: the
\* kept cells are the same cells in the same order.
C16_SingleSplice ==
    (/\ Changed
     /\ Len(last.event) = 1
     /\ last.event[1].kind = ModelChange
     /\ Len(last.event[1].changes) = 1
     /\ last.event[1].changes[1][1] + last.event[1].changes[1][2]
           <= Len(last.before[last.uri].cells))
    => LET old == last.before[last.uri].cells
           new == models[last.uri].cells
           i   == last.event[1].changes[1][1]
           N   == last.event[1].changes[1][2]
           dtos == last.event[1].changes[1][3]
       IN  /\ last.returned
           /\ Len(new) = Len(old) - N + Len(dtos)
           /\ \A k \in 1..i : new[k] = old[k]
           /\ \A k \in DOMAIN dtos : FreshFrom(new[i + k], dtos[k])
           /\ \A k \in (i + N + 1)..Len(old) :
                 new[k - N + Len(dtos)] = old[k]

\* a cell in the middle of three replaced by a new one
C16_Witness ==
    /\ Changed
    /\ Len(last.event) = 1
    /\ last.event[1].kind = ModelChange
    /\ last.event[1].changes[1] = <<1, 1, <<dN>>>>
    /\ Len(last.before[last.uri].cells) = 3
    /\ Len(models[last.uri].cells) = 3
    /\ models[last.uri].cells[2].handle = dN.handle

\* the numbers of the lines that hold a pandas import, for the texts of
\* the prompt notebooks
PandasLines(source) ==
    CASE source = Str("import pandas as pd") -> {1}
      [] source = Lines(Blank(20) \o <<"import pandas as pd">>) -> {21}
      [] source = Lines(Blank(19) \o <<"from pandas import x">>) -> {20}
      [] source = Str("import numpy\nFrom  Pandas") -> {2}
      [] source = Str("import numpy") -> {}

Prompted == last.op = "canPromptRecommendation" /\ last.returned

\* C20: $canPromptRecommendation returns true exactly when some cell that
\* is not Markup and whose language is "python" holds a pandas import on
\* one of its first 20 lines.
C20_PromptIffPythonCodeImportsPandas ==
    Prompted =>
        (last.found <=>
            \E i \in DOMAIN last.before[last.uri].cells :
                LET cell == last.before[last.uri].cells[i]
                IN  /\ cell.cellKind # Markup
                    /\ cell.language = "python"
                    /\ \E l \in PandasLines(cell.source) : l <= 20)

\* a Markup cell with the import on its first line and a python code cell
\* with the import on line 21: false
C20_Witness ==
    /\ Prompted
    /\ ~last.found
    /\ Len(last.before[last.uri].cells) = 2
    /\ last.before[last.uri].cells[1].cellKind = Markup
    /\ last.before[last.uri].cells[1].language = "python"
    /\ PandasLines(last.before[last.uri].cells[1].source) = {1}
    /\ last.before[last.uri].cells[2].cellKind = Code
    /\ last.before[last.uri].cells[2].language = "python"
    /\ PandasLines(last.before[last.uri].cells[2].source) = {21}

----------------------------------------------------------------------------
(* Properties of the fingerprints and of the diff.                         *)

SameContentButOutputs(c1, c2) ==
    /\ c1.source = c2.source
    /\ c1.language = c2.language
    /\ c1.metadata = c2.metadata
    /\ c1.internalMetadata = c2.internalMetadata
    /\ c1.outputs # c2.outputs

\* C6: of two cells that differ in their outputs only, getComparisonValue()
\* returns different values and getHashValue() the same value, whatever was
\* called on them before.
C6_FingerprintSensitivity ==
    (Len(cellPair) = 2 /\ SameContentButOutputs(cellPair[1], cellPair[2]))
    => /\ (ret.cmp[1].set /\ ret.cmp[2].set) => ret.cmp[1].v # ret.cmp[2].v
       /\ (ret.hsh[1].set /\ ret.hsh[2].set) => ret.hsh[1].v = ret.hsh[2].v

\* C21: getHashValue() returns the hash of the cell's text, language and
\* metadata fields, never one that covers the outputs, whichever of
\* getComparisonValue() and getHashValue() was called on the cell first.
C21_HashValueIgnoresOutputs ==
    \A i \in DOMAIN cellPair :
        ret.hsh[i].set => ret.hsh[i].v = contentHashes[Hashed(cellPair[i])]

SameDtoButInternalMetadata(d1, d2) ==
    /\ d1.internalMetadata # d2.internalMetadata
    /\ [d1 EXCEPT !.internalMetadata = Undefined]
         = [d2 EXCEPT !.internalMetadata = Undefined]

\* the mirror of u holds the cells built from the DTOs last sent for u,
\* untouched by change events
AsSent(u) ==
    /\ models[u].present
    /\ Len(models[u].cells) = Len(sent[u])
    /\ \A i \in DOMAIN sent[u] :
          [models[u].cells[i] EXCEPT !.hash = Null] = newMirrorCell(sent[u][i])

\* the original cell at the 0-based index lies in a change span
InChangeSpan(index, changes) ==
    \E k \in DOMAIN changes :
        /\ changes[k].originalStart <= index
        /\ index < changes[k].originalStart + changes[k].originalLength

\* C7: cells built from DTOs that differ in internalMetadata only get
\* different comparison fingerprints, and $computeDiff reports a change
\* span for such a cell.
C7_InternalMetadataFingerprinted ==
    (/\ Diffed
     /\ last.returned
     /\ AsSent(last.uri)
     /\ AsSent(last.uri2)
     /\ Len(sent[last.uri]) = Len(sent[last.uri2]))
    => \A i \in DOMAIN sent[last.uri] :
          SameDtoButInternalMetadata(sent[last.uri][i], sent[last.uri2][i])
          => /\ last.original[i] # last.modified[i]
             /\ InChangeSpan(i - 1, last.result.changes)

\* the comparison hash of the cell's current language, text, metadata,
\* internalMetadata and outputs
Fingerprint(cell) == comparisonHashes[Hashed(cell)]

Fingerprints(mirror) ==
    [i \in DOMAIN mirror.cells |-> Fingerprint(mirror.cells[i])]

\* C8: the elements $computeDiff compares are, cell by cell in document
\* order, the fingerprints of the cells' current fields, also for cells
\* whose _hash was filled before a change event altered them.
C8_NoStaleFingerprint ==
    Diffed =>
        /\ last.before[last.uri].present
              => last.original = Fingerprints(last.before[last.uri])
        /\ last.returned
              => last.modified = Fingerprints(last.before[last.uri2])

C8_Witness ==
    /\ Diffed
    /\ last.returned
    /\ \E i \in DOMAIN last.before[last.uri].cells :
          /\ last.before[last.uri].cells[i].hash.set
          /\ last.before[last.uri].cells[i].hash.v
                # Fingerprint(last.before[last.uri].cells[i])
          /\ last.original[i] = Fingerprint(last.before[last.uri].cells[i])

RECURSIVE SumOriginal(_)
SumOriginal(changes) ==
    IF changes = <<>> THEN 0
    ELSE Head(changes).originalLength + SumOriginal(Tail(changes))

RECURSIVE SumModified(_)
SumModified(changes) ==
    IF changes = <<>> THEN 0
    ELSE Head(changes).modifiedLength + SumModified(Tail(changes))

OriginalCount == Len(last.before[last.uri].cells)
ModifiedCount == Len(last.before[last.uri2].cells)

\* C9 as stated: the originalLength values of the spans sum to n and the
\* modifiedLength values to m.
C9_SpansSumToLengths ==
    (Diffed /\ last.returned)
    => /\ SumOriginal(last.result.changes) = OriginalCount
       /\ SumModified(last.result.changes) = ModifiedCount

\* C9 amended: the spans hold the changed cells only; the cells outside
\* them are as many in the original as in the modified sequence, so the
\* originalLength values sum to n - r and the modifiedLength values to
\* m - r for one number r >= 0 of retained cells.
C9_SpansLeaveEqualRests ==
    (Diffed /\ last.returned)
    => /\ Len(last.original) = OriginalCount
       /\ Len(last.modified) = ModifiedCount
       /\ SumOriginal(last.result.changes) <= OriginalCount
       /\ SumModified(last.result.changes) <= ModifiedCount
       /\ OriginalCount - SumOriginal(last.result.changes)
            = ModifiedCount - SumModified(last.result.changes)

C9_Witness ==
    /\ Diffed
    /\ last.returned
    /\ last.result.changes # <<>>
    /\ SumOriginal(last.result.changes) < OriginalCount
    /\ OriginalCount # ModifiedCount

\* C10: two mirrors whose cells have the same fingerprints in the same
\* order (a mirror and itself among them) diff to no change span and no
\* move, and cells with identical hashed fields get identical elements.
C10_IdenticalFingerprintsNoChanges ==
    (Diffed /\ last.returned)
    => /\ Fingerprints(last.before[last.uri])
            = Fingerprints(last.before[last.uri2])
          => last.result = NoDiff
       /\ \A i \in DOMAIN last.original, j \in DOMAIN last.modified :
             Hashed(last.before[last.uri].cells[i])
                = Hashed(last.before[last.uri2].cells[j])
             => last.original[i] = last.modified[j]

C10_Witness ==
    /\ Diffed
    /\ last.returned
    /\ last.uri # last.uri2
    /\ Len(last.original) > 0
    /\ Fingerprints(last.before[last.uri])
         = Fingerprints(last.before[last.uri2])
    /\ last.before[last.uri].cells[1].handle
         # last.before[last.uri2].cells[1].handle
    /\ last.result = NoDiff

\* C17: the change spans of a diff are listed in increasing order without
\* overlap, in the original and in the modified sequence, and each lies
\* within the two sequences.
C17_SpansOrderedInBounds ==
    (Diffed /\ last.returned)
    => LET changes == last.result.changes
       IN  /\ \A k \in DOMAIN changes :
                 /\ changes[k].originalStart >= 0
                 /\ changes[k].originalLength >= 0
                 /\ changes[k].originalStart + changes[k].originalLength
                       <= OriginalCount
                 /\ changes[k].modifiedStart >= 0
                 /\ changes[k].modifiedLength >= 0
                 /\ changes[k].modifiedStart + changes[k].modifiedLength
                       <= ModifiedCount
           /\ \A k \in 1..(Len(changes) - 1) :
                 /\ changes[k].originalStart + changes[k].originalLength
                       <= changes[k + 1].originalStart
                 /\ changes[k].modifiedStart + changes[k].modifiedLength
                       <= changes[k + 1].modifiedStart

\* a diff of two spans, of mirrors of different lengths
C17_Witness ==
    /\ Diffed
    /\ last.returned
    /\ Len(last.result.changes) = 2
    /\ OriginalCount > ModifiedCount
    /\ ModifiedCount > 0
    /\ last.result.changes[1].originalStart
         + last.result.changes[1].originalLength
         < last.result.changes[2].originalStart

\* the sequence with the element put in at the 0-based position k
InsertedAt(seq, k, element) ==
    SubSeq(seq, 1, k) \o <<element>> \o SubSeq(seq, k + 1, Len(seq))

Elements(seq) == {seq[i] : i \in DOMAIN seq}

\* longer is shorter with one element, unlike all of shorter, put in at k
OneMoreAt(shorter, longer, k) ==
    /\ Len(longer) = Len(shorter) + 1
    /\ k < Len(longer)
    /\ longer = InsertedAt(shorter, k, longer[k + 1])
    /\ longer[k + 1] \notin Elements(shorter)

\* C18: when the modified mirror is the original one with one more cell at
\* position k, of a fingerprint that no cell of the original has, the diff
\* is the single span {k, 0, k, 1}.
C18_InsertionIsOneSpan ==
    (Diffed /\ last.returned)
    => \A k \in 0..OriginalCount :
          OneMoreAt(Fingerprints(last.before[last.uri]),
                    Fingerprints(last.before[last.uri2]), k)
          => last.result.changes =
                <<[originalStart |-> k, originalLength |-> 0,
                   modifiedStart |-> k, modifiedLength |-> 1]>>

\* [X, Z] against [X, Y, Z]: k = 1
C18_Witness ==
    /\ Diffed
    /\ last.returned
    /\ OriginalCount = 2
    /\ OneMoreAt(Fingerprints(last.before[last.uri]),
                 Fingerprints(last.before[last.uri2]), 1)
    /\ last.result.changes =
          <<[originalStart |-> 1, originalLength |-> 0,
             modifiedStart |-> 1, modifiedLength |-> 1]>>

\* C19: when the modified mirror is the original one without its cell at
\* position k, whose fingerprint no other cell has, the diff is the single
\* span {k, 1, k, 0}.
C19_DeletionIsOneSpan ==
    (Diffed /\ last.returned)
    => \A k \in 0..ModifiedCount :
          OneMoreAt(Fingerprints(last.before[last.uri2]),
                    Fingerprints(last.before[last.uri]), k)
          => last.result.changes =
                <<[originalStart |-> k, originalLength |-> 1,
                   modifiedStart |-> k, modifiedLength |-> 0]>>

\* [X, Y, Z] against [X, Z]: k = 1
C19_Witness ==
    /\ Diffed
    /\ last.returned
    /\ OriginalCount = 3
    /\ OneMoreAt(Fingerprints(last.before[last.uri2]),
                 Fingerprints(last.before[last.uri]), 1)
    /\ last.result.changes =
          <<[originalStart |-> 1, originalLength |-> 1,
             modifiedStart |-> 1, modifiedLength |-> 0]>>

\* the elements of seq at the positions from i on that are not in covered
RECURSIVE Rest(_, _, _)
Rest(seq, covered, i) ==
    IF i > Len(seq) THEN <<>>
    ELSE (IF i \in covered THEN <<>> ELSE <<seq[i]>>)
         \o Rest(seq, covered, i + 1)

\* the 1-based positions the spans cover in the original, in the modified
CoveredOriginal(changes) ==
    UNION {(changes[k].originalStart + 1)
              ..(changes[k].originalStart + changes[k].originalLength) :
           k \in DOMAIN changes}
CoveredModified(changes) ==
    UNION {(changes[k].modifiedStart + 1)
              ..(changes[k].modifiedStart + changes[k].modifiedLength) :
           k \in DOMAIN changes}

\* A with the original run of each of the spans 1..k replaced by the
\* span's modified run of B, the last span first
RECURSIVE ApplySpans(_, _, _, _)
ApplySpans(A, B, changes, k) ==
    IF k = 0 THEN A
    ELSE ApplySpans(
             SubSeq(A, 1, changes[k].originalStart)
             \o SubSeq(B, changes[k].modifiedStart + 1,
                       changes[k].modifiedStart + changes[k].modifiedLength)
             \o SubSeq(A, changes[k].originalStart
                            + changes[k].originalLength + 1, Len(A)),
             B, changes, k - 1)

Subsequences(seq) == {Rest(seq, drop, 1) : drop \in SUBSET DOMAIN seq}

\* the length of a longest common subsequence, by enumeration
LongestCommon(A, B) ==
    LET lengths == {Len(c) : c \in Subsequences(A) \cap Subsequences(B)}
    IN  CHOOSE n \in lengths : \A m \in lengths : m <= n

\* C23: the change spans are a minimal edit script: replacing the original
\* run of each span by its modified run turns the original sequence into
\* the modified one, the cells outside the spans are pairwise equal, and
\* there are as many of them as a longest common subsequence is long.
C23_MinimalEditScript ==
    (Diffed /\ last.returned)
    => LET changes == last.result.changes
           keptOriginal == Rest(last.original, CoveredOriginal(changes), 1)
           keptModified == Rest(last.modified, CoveredModified(changes), 1)
       IN  /\ ApplySpans(last.original, last.modified, changes, Len(changes))
                = last.modified
           /\ keptOriginal = keptModified
           /\ Len(keptOriginal) = LongestCommon(last.original, last.modified)

\* a diff with a span that keeps two cells of an original of three
C23_Witness ==
    /\ Diffed
    /\ last.returned
    /\ last.uri # last.uri2
    /\ Len(last.original) = 3
    /\ last.result.changes # <<>>
    /\ Len(Rest(last.original, CoveredOriginal(last.result.changes), 1)) = 2

Queried == last.op \in {"computeDiff", "canPromptRecommendation"}

\* the mirror without the hash its cells cache
WithoutHash(mirror) ==
    [present |-> mirror.present,
     cells |-> [i \in DOMAIN mirror.cells |->
                  [mirror.cells[i] EXCEPT !.hash = Null]]]

\* what $computeDiff(u1, u2) gives when the registry is ms
Outcome(ms, u1, u2) ==
    LET a == getElements(ms[u1])
        b == getElements(ms[u2])
    IN  IF a.threw # NoError \/ b.threw # NoError
        THEN [returned |-> FALSE, result |-> NoDiff]
        ELSE [returned |-> TRUE,
              result |-> LcsComputeDiff(a.elements, b.elements)]

\* C24: $computeDiff and $canPromptRecommendation change neither the
\* registry nor the order, handle, language, metadata or outputs of any
\* cell, and they leave the result of every $computeDiff as it was, so two
\* $computeDiff of the same URLs with no $accept* request in between
\* return equal results.
C24_QueriesChangeNothing ==
    Queried
    => /\ \A u \in URIs : WithoutHash(models[u]) = WithoutHash(last.before[u])
       /\ \A u1 \in URIs, u2 \in URIs :
             Outcome(models, u1, u2) = Outcome(last.before, u1, u2)
       /\ Diffed
             => [returned |-> last.returned, result |-> last.result]
                   = Outcome(last.before, last.uri, last.uri2)

\* a $computeDiff of two mirrors whose cells were all read by a diff
\* before, with a change span to report
C24_Witness ==
    /\ Diffed
    /\ last.returned
    /\ last.uri # last.uri2
    /\ last.result.changes # <<>>
    /\ Len(last.before[last.uri].cells) > 1
    /\ \A u \in {last.uri, last.uri2} :
          \A i \in DOMAIN last.before[u].cells :
              last.before[u].cells[i].hash.set

----------------------------------------------------------------------------
(* Properties of the dialog handler.                                       *)

ClosedIds == {dialogHandler.closed[i].id : i \in DOMAIN dialogHandler.closed}

\* one dialog at a time, in queue order, each closed once with the outcome
\* of its own handler call
OneDialogAtATime ==
    /\ Len(dialogHandler.loops) <= 1
    /\ dialogHandler.errors = 0
    /\ (dialogHandler.currentDialog # NoDialog)
          <=> (dialogHandler.loops # <<>>)
    /\ dialogHandler.loops # <<>>
          => /\ dialogHandler.loops[1] = dialogHandler.currentDialog
             /\ dialogHandler.currentDialog = Head(dialogHandler.dialogs)
    /\ \A i \in DOMAIN dialogHandler.started : dialogHandler.started[i] = i
    /\ \A i \in DOMAIN dialogHandler.closed :
          /\ dialogHandler.closed[i].id = i
          /\ dialogHandler.closed[i].result # Undefined
                => dialogHandler.closed[i].result.of = i
    /\ Len(dialogHandler.started) - Len(dialogHandler.closed) \in {0, 1}
    /\ Len(dialogHandler.closed) + Len(dialogHandler.dialogs)
          = dialogHandler.shown

\* C28: the queued dialogs are handled one at a time in queue order: while
\* a handler call is pending there is no second processDialogs loop and
\* no second handler call, also when onWillShowDialog fires meanwhile;
\* each dialog is closed once, with the result or the error of its own
\* handler call, before the next one is handled; and every dialog shown
\* is closed in the end if the handler calls settle.
C28_DialogsOneByOne ==
    /\ []OneDialogAtATime
    /\ \A id \in 1..MaxDialogs :
          (dialogHandler.shown >= id) ~> (id \in ClosedIds)

\* two dialogs were shown while the handler call of the first was pending;
\* the first was closed with an error and the second is being handled
C28_Witness ==
    /\ dialogHandler.built
    /\ dialogHandler.shown = 3
    /\ Len(dialogHandler.dialogs) = 2
    /\ Len(dialogHandler.closed) = 1
    /\ dialogHandler.closed[1].result = [error |-> TRUE, of |-> 1]
    /\ dialogHandler.currentDialog.id = 2
    /\ dialogHandler.started = <<1, 2>>

----------------------------------------------------------------------------
(* Properties of the extensions downloader.                                *)

\* C29: a download() whose verify() threw ends rejected with the code
\* Signature after it deleted both the signature archive and the VSIX; a
\* download() never resolves after its verify() threw; and nothing
\* touches the download directory before cleanUp has finished.
C29_VerificationFailureCleansUp ==
    /\ \A c \in DOMAIN downloader.calls :
          /\ (downloader.calls[c].verifyThrew
               /\ downloader.calls[c].pc = "done")
             => /\ downloader.calls[c].outcome = "Signature"
                /\ downloader.calls[c].deleted = {SignatureArchive, Vsix}
          /\ downloader.calls[c].outcome = "resolved"
             => ~downloader.calls[c].verifyThrew
    /\ ~downloader.early

----------------------------------------------------------------------------
(* Properties of the debounced extension event.                            *)

\* C30: the list the debounced onExtensionChanged fires with holds every
\* identifier of the events received in its window, and no two of its
\* entries are the same extension by areSameExtensions.
C30_MergedWithoutDuplicates ==
    extensionChanged.emitted.fired
    => LET list == extensionChanged.emitted.list
       IN  /\ \A x \in extensionChanged.emitted.occurred :
                 \E i \in DOMAIN list : areSameExtensions(list[i], x)
           /\ \A i \in DOMAIN list, j \in DOMAIN list :
                 i # j => ~areSameExtensions(list[i], list[j])

============================================================================
